---- MODULE Spec2Model ----
(***************************************************************************)
(* Device-side playback engine of the TVBOXZ signage platform.             *)
(*                                                                         *)
(*   SpecCache : services/videoCache (class VideoCache)                    *)
(*   SpecTV    : pages/tvbox/TVBoxDisplay                                  *)
(*   SpecMP    : pages/DeviceApp + components/MediaPlayer                  *)
(*   Spec      : the player pages (the browser opens one of them)          *)
(***************************************************************************)
EXTENDS Integers, Sequences, FiniteSets, TLC

VARIABLES
    \* ---- VideoCache (services/videoCache) ----
    vcCache,      \* this.cache: a Map, kept in insertion order
    vcStorage,    \* localStorage['video_cache']: the JSON text, as its pairs
    now,          \* Date.now(), in units of CACHE_DURATION / 1
    vcLast,       \* the last cacheVideo / getCachedVideo call and its result
    lsFull,       \* localStorage.setItem throws in this browser
    \* ---- the player page ----
    page,         \* the route the browser opened: "cache" (none), "tv", "mp", "crashed"
    currentIndex, \* useState(0) of the page's component
    isOnline,     \* useState of the page's component
    \* ---- TVBoxDisplay ----
    content,      \* data of useQuery(['device-files', deviceId]), default []
    tvQuery,      \* that query: isLoading, and whether a fetch is in flight
    announcements,            \* data of useQuery(['announcements', deviceId])
    showingAnnouncement,
    currentAnnouncementIndex,
    mediaAspectRatio,
    tvVideo,      \* the <video> element: its src and playback state
    tvTimeouts,   \* pending setTimeout(goToNext, 3000) of onError, by the
                  \* content.length their goToNext closed over
    tvSocket,     \* the device socket of the socket effect
    preloadedVideos,
    tvPreloading, \* ids of the hidden preload <video> elements still loading
    tvAdvance,    \* history: what called setCurrentIndex last
    tvPush,       \* history: a 'playlist:update' reached the socket
    \* ---- DeviceApp + MediaPlayer ----
    lsDevice,     \* localStorage: device_token and device_id are stored
    app,          \* DeviceApp: what it renders, and isBlocked
    playlist,     \* useState([]) of MediaPlayer
    persisted,    \* the playlist deviceStorage holds
    mpLoading,    \* isLoading of MediaPlayer
    mpError,      \* error of MediaPlayer
    mpCalls,      \* loadPlaylist calls waiting for the manifest response
    mediaStore,   \* the media deviceStorage holds: url -> stored digest
    currentMediaUrl,
    mpLoads,      \* loadCurrentMedia calls waiting for their media
    mpElement,    \* the <video> / <img> the render shows
    mpTimer,      \* the setTimeout of the image timer effect is pending
    mpSocket,     \* the device socket the last run of the socket effect made
    mpDisturbance, \* history: the last remote command, error or reload of
                  \* the playlist; "none" while items only ended
    mpStarted,    \* history: a 'playback:event' with action 'started' was
                  \* emitted for the item at currentIndex since it is there
    lsUuid,       \* localStorage: device_uuid
    \* ---- the server: POST /devices/register, GET /player/:deviceId/manifest ----
    beDevices,    \* the rows of table devices, in the order of their INSERT
    beTokens,     \* the device tokens registerDevice has signed
    beRes,        \* the last response the server sent
    \* ---- the server: the socket namespaces ----
    deviceSockets, \* DeviceService.deviceSockets: device id -> socket id
    nsSockets,    \* devicesNS.sockets: the connected device sockets
    ioIssued,     \* the number of socket ids issued so far
    ioSent,       \* the last 'command:sent' an admin socket was answered
    \* ---- the server: POST /auth/login behind protectLogin ----
    bfRows,       \* the rows of brute_force_attempts for the e-mail, type 'login'
    bfCalls,      \* the recordAttempt and clearAttempts calls not yet finished
    bfRes,        \* the status of the last login response
    bfLogins,     \* the number of login requests answered so far
    regCalls,     \* the registerDevice calls under way, by caller
    \* ---- the socket effect of a player, on its own ----
    fxSockets,    \* the device sockets the runs of the effect opened and
                  \* nothing disconnected
    fxRuns,       \* the number of runs of the effect so far
    bfSeen        \* history: the failed logins recorded at the present time
                  \* since the last clearAttempts, and when they reached
                  \* MAX_ATTEMPTS

vcVars == <<vcCache, vcStorage, now, vcLast, lsFull>>

pageVars == <<page, currentIndex, isOnline>>

mpVars == <<lsDevice, app, playlist, persisted, mpLoading, mpError, mpCalls,
            mediaStore, currentMediaUrl, mpLoads, mpElement, mpTimer, mpSocket,
            mpDisturbance, mpStarted>>

tvVars == <<content, tvQuery, announcements, showingAnnouncement,
            currentAnnouncementIndex, mediaAspectRatio, tvVideo, tvTimeouts,
            tvSocket, preloadedVideos, tvPreloading, tvAdvance, tvPush>>

ioVars == <<deviceSockets, nsSockets, ioIssued, ioSent>>

bfVars == <<bfRows, bfCalls, bfRes, bfLogins, bfSeen>>

fxVars == <<fxSockets, fxRuns>>

svcVars == <<ioVars, bfVars, regCalls, fxVars>>

beVars == <<beDevices, beTokens, beRes, svcVars>>

vars == <<vcCache, vcStorage, now, vcLast, lsFull, page, currentIndex, isOnline,
          content, tvQuery, announcements, showingAnnouncement,
          currentAnnouncementIndex, mediaAspectRatio, tvVideo, tvTimeouts,
          tvSocket, preloadedVideos, tvPreloading, tvAdvance, tvPush, lsDevice,
          app,
          playlist, persisted, mpLoading, mpError, mpCalls, mediaStore,
          currentMediaUrl, mpLoads, mpElement, mpTimer, mpSocket, mpDisturbance,
          mpStarted, lsUuid, beDevices, beTokens, beRes,
          deviceSockets, nsSockets, ioIssued, ioSent,
          bfRows, bfCalls, bfRes, bfLogins, bfSeen, regCalls, fxSockets, fxRuns>>

\* ------------------------------------------------------------------ bounds
\* The clock runs from 0 to MaxTime.
MaxTime == 2
\* MAX_CACHE_SIZE of the source is 50; the model keeps the comparison and
\* scales the number.
MAX_CACHE_SIZE == 3
\* CACHE_DURATION of the source is 30 minutes: one unit of the clock.
CACHE_DURATION == 1
\* At most MaxTimeouts setTimeout(goToNext, 3000) of onError are pending.
MaxTimeouts == 1
\* At most MaxCalls loadPlaylist calls wait for the server, at most MaxLoads
\* loadCurrentMedia calls for their media, and a <video> element carries at
\* most MaxListeners 'ended' listeners.
MaxCalls == 1
MaxLoads == 2
MaxListeners == 2

\* Content ids; 0 is the id JavaScript treats as falsy.
VcIds == {0, 1, 2, 3}
VcUrls == {"u1", "u2"}
Null == "null"
Undefined == -1
\* null where a url is expected
NullUrl == <<"null", 0>>
\* localStorage.getItem('video_cache') === null
NoStorage == [has |-> FALSE, pairs |-> <<>>]

\* The record of a call: what was called, with what and when, and what it
\* returned.
\* again: a cacheVideo with the arguments of the cacheVideo right before it.
\* wrote: for a getCachedVideo(id) right after cacheVideo(id, url) whose
\* entry is not older than CACHE_DURATION, that url.
\* evicted: the cacheVideo (of this call, or right before this read) deleted
\* the first key of a full cache; for clearExpiredCache, expiredKeys was not
\* empty.
Call(op, id, url, res, again, wrote, evicted) ==
    [op |-> op, id |-> id, url |-> url, res |-> res, at |-> now,
     again |-> again, wrote |-> wrote, evicted |-> evicted]

\* ------------------------------------------------------- JavaScript's Map
\* A Map is the sequence of its entries in insertion order; an entry is the
\* CachedVideo stored under key id.
MapKeys(m) == {m[i].id : i \in DOMAIN m}

MapHas(m, id) == id \in MapKeys(m)

\* Map.prototype.get of a present key.
MapGet(m, id) == LET i == CHOOSE j \in DOMAIN m : m[j].id = id IN m[i]

MapDelete(m, id) == SelectSeq(m, LAMBDA e : e.id # id)

\* A buggy set: appends even when the key is present.
MapSetAppend(m, id, e) == Append(m, e)

\* Map.prototype.set: a present key keeps its place and takes the new value,
\* a new key goes last.
MapSet(m, id, e) ==
    IF MapHas(m, id)
    THEN [i \in DOMAIN m |-> IF m[i].id = id THEN e ELSE m[i]]
    ELSE Append(m, e)

\* this.cache.keys().next().value
FirstKey(m) == IF m = <<>> THEN Undefined ELSE m[1].id

\* JavaScript truthiness of a key.
Truthy(k) == k # Undefined /\ k # 0

\* Array.from(this.cache.entries()) then JSON.stringify: the [key, value] pairs.
ToEntries(m) == [i \in DOMAIN m |-> <<m[i].id, m[i]>>]

RECURSIVE FromEntries(_)
\* new Map(JSON.parse(stored)): the pairs set one after the other.
FromEntries(ps) ==
    IF ps = <<>> THEN <<>>
    ELSE LET n == Len(ps)
             front == FromEntries(SubSeq(ps, 1, n - 1))
         IN MapSet(front, ps[n][1], ps[n][2])

\* A buggy test: an entry of exactly CACHE_DURATION counts as expired.
IsExpiredAtDuration(e, t) == t - e.cachedAt >= CACHE_DURATION

IsExpired(e, t) == t - e.cachedAt > CACHE_DURATION

\* The cache after clearExpiredCache at time t.
Unexpired(m, t) == SelectSeq(m, LAMBDA e : ~IsExpired(e, t))

\* updateStorage / the inner try of cacheVideo: a setItem that throws is
\* caught and leaves the stored text st as it was.
Persisted(m, st) == IF lsFull THEN st ELSE [has |-> TRUE, pairs |-> ToEntries(m)]

\* A buggy order: the entry is set first and the first key evicted after.
CacheAfterWriteEvictLast(m, id, url, t) ==
    LET set == MapSet(m, id, [id |-> id, url |-> url, cachedAt |-> t])
    IN IF Len(set) >= MAX_CACHE_SIZE /\ Truthy(FirstKey(set))
       THEN MapDelete(set, FirstKey(set))
       ELSE set

\* cacheVideo's effect on the Map: evict the first key when full, then set.
CacheAfterWrite(m, id, url, t) ==
    LET room == IF Len(m) >= MAX_CACHE_SIZE /\ Truthy(FirstKey(m))
                THEN MapDelete(m, FirstKey(m))
                ELSE m
    IN MapSet(room, id, [id |-> id, url |-> url, cachedAt |-> t])

\* cacheVideo on the store vc = [cache, storage]: the store after it.
PutVideo(vc, id, url, t) ==
    LET m == CacheAfterWrite(vc.cache, id, url, t)
    IN [cache |-> m, storage |-> Persisted(m, vc.storage)]

cacheVideo(id, url) ==
    LET after == PutVideo([cache |-> vcCache, storage |-> vcStorage], id, url, now)
    IN /\ vcCache' = after.cache
       /\ vcStorage' = after.storage
       /\ vcLast' = Call("cacheVideo", id, url, Null,
                         vcLast.op = "cacheVideo" /\ vcLast.id = id /\ vcLast.url = url,
                         Null,
                         Len(vcCache) >= MAX_CACHE_SIZE /\ Truthy(FirstKey(vcCache)))
       /\ UNCHANGED <<now, lsFull>>
       /\ UNCHANGED <<pageVars, tvVars, mpVars>>
       /\ UNCHANGED <<lsUuid, beVars>>

\* loadFromStorage: the cache as getCachedVideo finds it.
Loaded(m, stored, t) ==
    IF m = <<>> /\ stored.has THEN Unexpired(FromEntries(stored.pairs), t) ELSE m

\* getCachedVideo on the store vc: the store after it and the url of the
\* CachedVideo returned (Null for null).
GetVideo(vc, id, t) ==
    LET loaded == Loaded(vc.cache, vc.storage, t)
        reloaded == vc.cache = <<>> /\ vc.storage.has
        dropped == reloaded /\ loaded # FromEntries(vc.storage.pairs)
        hit == MapHas(loaded, id)
        expired == hit /\ IsExpired(MapGet(loaded, id), t)
        m == IF expired THEN MapDelete(loaded, id) ELSE loaded
    IN [cache |-> m,
        storage |-> IF expired \/ dropped THEN Persisted(m, vc.storage) ELSE vc.storage,
        res |-> IF hit /\ ~expired THEN MapGet(loaded, id).url ELSE Null]

getCachedVideo(id) ==
    LET after == GetVideo([cache |-> vcCache, storage |-> vcStorage], id, now)
    IN /\ vcCache' = after.cache
       /\ vcStorage' = after.storage
       /\ vcLast' = Call("getCachedVideo", id, Null, after.res, FALSE,
                         IF vcLast.op = "cacheVideo" /\ vcLast.id = id
                               /\ now - vcLast.at <= CACHE_DURATION
                         THEN vcLast.url ELSE Null,
                         vcLast.op = "cacheVideo" /\ vcLast.id = id /\ vcLast.evicted)
       /\ UNCHANGED <<now, lsFull>>
       /\ UNCHANGED <<pageVars, tvVars, mpVars>>
       /\ UNCHANGED <<lsUuid, beVars>>

clearCache ==
    /\ vcCache' = <<>>
    /\ vcStorage' = NoStorage
    /\ vcLast' = Call("clearCache", Undefined, Null, Null, FALSE, Null, FALSE)
    /\ UNCHANGED <<now, lsFull>>
    /\ UNCHANGED <<pageVars, tvVars, mpVars>>
    /\ UNCHANGED <<lsUuid, beVars>>

clearExpiredCache ==
    /\ vcCache' = Unexpired(vcCache, now)
    /\ vcStorage' = IF vcCache' # vcCache THEN Persisted(vcCache', vcStorage) ELSE vcStorage
    /\ vcLast' = Call("clearExpiredCache", Undefined, Null, Null, FALSE, Null,
                      vcCache' # vcCache)
    /\ UNCHANGED <<now, lsFull>>
    /\ UNCHANGED <<pageVars, tvVars, mpVars>>
    /\ UNCHANGED <<lsUuid, beVars>>

\* The page is loaded anew: a fresh VideoCache, localStorage kept.
VcReload ==
    /\ vcCache # <<>>
    /\ vcCache' = <<>>
    /\ vcLast' = Call("reload", Undefined, Null, Null, FALSE, Null, FALSE)
    /\ UNCHANGED <<vcStorage, now, lsFull, pageVars, tvVars, mpVars>>
    /\ UNCHANGED <<lsUuid, beVars>>

Tick ==
    /\ now < MaxTime
    /\ now' = now + 1
    /\ UNCHANGED <<vcCache, vcStorage, vcLast, lsFull, pageVars, tvVars, mpVars>>
    /\ UNCHANGED <<lsUuid, beVars>>

\* A fresh VideoCache at time 0.
VcFresh ==
    /\ vcCache = <<>>
    /\ vcStorage = NoStorage
    /\ now = 0
    /\ vcLast = Call("new", Undefined, Null, Null, FALSE, Null, FALSE)

\* No page component is mounted.
TVIdle ==
    /\ content = <<>>
    /\ tvQuery = [isLoading |-> FALSE, fetching |-> FALSE]
    /\ announcements = <<>>
    /\ showingAnnouncement = FALSE
    /\ currentAnnouncementIndex = 0
    /\ mediaAspectRatio = "landscape"
    /\ tvVideo = [src |-> NullUrl, state |-> "none"]
    /\ tvTimeouts = <<>>
    /\ tvSocket = "none"
    /\ preloadedVideos = {}
    /\ tvPreloading = {}
    /\ tvAdvance = "none"
    /\ tvPush = FALSE

\* The urls of the media the manifests name.
MediaUrls == {<<"media", cid>> : cid \in {1, 2, 3}}

\* currentMediaUrl is null.
NoUrl == [from |-> "none", url |-> NullUrl, digest |-> Null]

\* No media element is on the page.
NoElement == [kind |-> "none", src |-> NoUrl, state |-> "none", listeners |-> <<>>]

\* No DeviceApp is mounted.
MPIdle ==
    /\ lsDevice = FALSE
    /\ app = [phase |-> "none", isBlocked |-> FALSE]
    /\ playlist = <<>>
    /\ persisted = <<>>
    /\ mpLoading = FALSE
    /\ mpError = Null
    /\ mpCalls = 0
    /\ mediaStore = [u \in MediaUrls |-> Null]
    /\ currentMediaUrl = NoUrl
    /\ mpLoads = <<>>
    /\ mpElement = NoElement
    /\ mpTimer = FALSE
    /\ mpSocket = "none"
    /\ mpDisturbance = "none"
    /\ mpStarted = FALSE
    /\ lsUuid = Null

\* A request without an Authorization header carries no token.
NoToken == [kind |-> "absent", device_id |-> 0, tenant_id |-> 0, role |-> Null]

\* Nothing was answered yet.
NoResponse ==
    [route |-> "none", status |-> 0, success |-> FALSE, error |-> Null,
     device |-> 0, token |-> NoToken, hasData |-> FALSE, data |-> <<>>]

\* The ids of the devices that open sockets.
SocketDevices == {1, 2}

\* Map.prototype.get of an absent key.
NoSocket == 0

\* No 'command:sent' was emitted yet.
NothingSent == [device_id |-> 0, success |-> FALSE, error |-> Null, to |-> NoSocket]

\* No device socket was ever connected.
IoIdle ==
    /\ deviceSockets = [d \in SocketDevices |-> NoSocket]
    /\ nsSockets = {}
    /\ ioIssued = 0
    /\ ioSent = NothingSent

\* NULL of a DATETIME column.
SqlNull == Undefined

\* No login was requested yet.
BfIdle ==
    /\ bfRows = {}
    /\ bfCalls = {}
    /\ bfRes = 0
    /\ bfLogins = 0
    /\ bfSeen = [fails |-> 0, due |-> SqlNull]

\* The clients that call POST /devices/register at the same time.
MaxCallers == 2
Callers == 1 .. MaxCallers

\* No registration is under way.
NoCall == [phase |-> "idle", device_uuid |-> Null, tenant_id |-> 0, name |-> <<>>,
           existing |-> 0, status |-> 0, device |-> 0]

\* The server has an empty table and has answered nothing.
BeIdle ==
    /\ beDevices = <<>>
    /\ beTokens = {}
    /\ beRes = NoResponse
    /\ IoIdle
    /\ BfIdle
    /\ regCalls = [caller \in Callers |-> NoCall]
    /\ fxSockets = {}
    /\ fxRuns = 0

\* A browser either stores for this origin or refuses to (setItem throws).
VcInit ==
    /\ lsFull \in BOOLEAN
    /\ VcFresh
    /\ page = "cache" /\ currentIndex = 0 /\ isOnline = TRUE
    /\ TVIdle
    /\ MPIdle
    /\ BeIdle

VcNext ==
    \/ \E id \in VcIds, url \in VcUrls : cacheVideo(id, url)
    \/ \E id \in VcIds : getCachedVideo(id)
    \/ clearCache
    \/ clearExpiredCache
    \/ VcReload
    \/ Tick

SpecCache == VcInit /\ [][VcNext]_vars

\* ------------------------------------------------------------ TVBoxDisplay
\* Rows of device_files as GET /device-files/:deviceId/files returns them:
\* id, name, type, size, file_path, order, created_at, url; no duration.
FileImage == [id |-> 1, type |-> "image"]
FileVideo == [id |-> 2, type |-> "video"]
FileBanner == [id |-> 3, type |-> "image"]
Files == {FileImage, FileVideo, FileBanner}

\* What the server's table holds at the time of a fetch, ORDER BY order_index.
FileLists == {<<>>, <<FileImage, FileVideo>>,
              <<FileVideo, FileBanner, FileImage>>}

\* videoWidth / videoHeight < 0.8, or > 1.2
AspectRatios == {"portrait", "landscape"}

Announcement(i) == [id |-> i, order_index |-> i, display_duration |-> 5]
AnnouncementLists == {<<>>, <<Announcement(1), Announcement(2)>>}

\* file.url of the route: /api/device-files/<deviceId>/files/<id>/download
FileUrl(id) == <<"download", id>>

\* file.type?.includes('video')
IncludesVideo(type) == type \in {"video", "video/mp4"}

\* The map of queryFn over filesResponse.data.files.
ToContentItem(file) ==
    [id |-> file.id,
     file_path |-> FileUrl(file.id),
     categoria |-> file.type,
     type |-> IF IncludesVideo(file.type) THEN "video" ELSE "image",
     duration |-> Undefined]

ToContent(files) == [i \in DOMAIN files |-> ToContentItem(files[i])]

IsVideoItem(c) == c.categoria = "video" \/ c.type = "video"

\* content[currentIndex] is not undefined.
HasCurrent(cont, idx) == idx + 1 \in DOMAIN cont
CurrentItem(cont, idx) == cont[idx + 1]

Falsy(d) == d = Undefined \/ d = 0

\* (currentContent.duration || 10): seconds of the image interval.
ImageSeconds(item) == IF Falsy(item.duration) THEN 10 ELSE item.duration

\* The image interval of the effect on [currentIndex, content] is running.
ImageTimerArmed(cont, idx) ==
    HasCurrent(cont, idx) /\ ~IsVideoItem(CurrentItem(cont, idx))

\* The auto-advance interval is running, and its period in seconds.
AutoAdvanceArmed(cont, anns) == cont # <<>> \/ anns # <<>>
AutoAdvanceSeconds(anns, showing, annIdx) ==
    IF ~showing THEN 10
    ELSE IF annIdx + 1 \in DOMAIN anns /\ ~Falsy(anns[annIdx + 1].display_duration)
         THEN anns[annIdx + 1].display_duration
         ELSE 5

\* The items preloadNextVideos handles, i = 1, 2, in that order.
PreloadTargets(cont, idx, pre) ==
    LET n == Len(cont)
        next(i) == cont[((idx + i) % n) + 1]
        wanted(i) == IsVideoItem(next(i)) /\ next(i).id \notin pre
    IN IF n = 0 THEN <<>>
       ELSE (IF wanted(1) THEN <<next(1)>> ELSE <<>>)
            \o (IF wanted(2) THEN <<next(2)>> ELSE <<>>)

StoreOf(r) == [cache |-> r.cache, storage |-> r.storage]

\* getOptimalVideoUrl: the cached url, else content.file_path (the rows
\* carry no formats).
OptimalUrl(found, item) == IF found.res # Null THEN found.res ELSE item.file_path

\* The cache calls of the two effects on [currentIndex, content], each on the
\* store vc the call before it left.  They run in this order: the lookup of
\* the first preload target, the lookup of the current video, then the rest
\* of preloadNextVideos.
\* getOptimalVideoUrl of preload target i: its getCachedVideo.
PreloadLookup(vc, targets, i, t) ==
    IF Len(targets) >= i THEN GetVideo(vc, targets[i].id, t)
    ELSE [cache |-> vc.cache, storage |-> vc.storage, res |-> Null]

\* videoCache.cacheVideo of preload target i, with the url found for it.
PreloadCache(vc, targets, i, found, t) ==
    IF Len(targets) >= i
    THEN PutVideo(vc, targets[i].id, OptimalUrl(found, targets[i]), t)
    ELSE vc

\* loadVideoWithFallbacks of the current item: its getCachedVideo.
CurrentLookup(vc, cont, idx, t) ==
    IF HasCurrent(cont, idx) /\ IsVideoItem(CurrentItem(cont, idx))
    THEN GetVideo(vc, CurrentItem(cont, idx).id, t)
    ELSE [cache |-> vc.cache, storage |-> vc.storage, res |-> Null]

\* The render puts a <video> element on the page.
VideoMounted(cont, idx, showing) ==
    ~showing /\ HasCurrent(cont, idx) /\ IsVideoItem(CurrentItem(cont, idx))

\* The render reads currentContent.title with currentContent null.
RenderThrows(loading, cont, idx, anns, showing, annIdx, aspect) ==
    LET defined == IF showing /\ anns # <<>> THEN annIdx + 1 \in DOMAIN anns
                   ELSE HasCurrent(cont, idx)
    IN /\ ~loading
       /\ ~(cont = <<>> /\ anns = <<>>)
       /\ defined
       /\ showing
       /\ aspect # "portrait"

\* The state TVBoxDisplay mounts in (deviceId and device_token are stored).
TVMounted ==
    /\ currentIndex = 0
    /\ isOnline = TRUE
    /\ content = <<>>
    /\ tvQuery = [isLoading |-> TRUE, fetching |-> TRUE]
    /\ announcements = <<>>
    /\ showingAnnouncement = FALSE
    /\ currentAnnouncementIndex = 0
    /\ mediaAspectRatio = "landscape"
    /\ tvVideo = [src |-> NullUrl, state |-> "none"]
    /\ tvTimeouts = <<>>
    /\ tvSocket = "connecting"
    /\ preloadedVideos = {}
    /\ tvPreloading = {}
    /\ tvAdvance = "none"
    /\ tvPush = FALSE

\* The render that follows a state change, and the effects it schedules:
\* the effects on [currentIndex, content] when one of the two changed, the
\* socket effect when one of its dependencies changed, the <video> element
\* as the render mounts it.  video is the element as the event left it.
TVSettle(video) ==
    LET changed == <<currentIndex', content'>> # <<currentIndex, content>>
        runs == changed /\ content' # <<>>
        mounted == VideoMounted(content', currentIndex', showingAnnouncement')
        throws == RenderThrows(tvQuery'.isLoading, content', currentIndex',
                               announcements', showingAnnouncement',
                               currentAnnouncementIndex', mediaAspectRatio')
    IN \E targets \in {PreloadTargets(content', currentIndex', preloadedVideos)} :
       \E get1 \in {PreloadLookup([cache |-> vcCache, storage |-> vcStorage],
                                   targets, 1, now)} :
       \E getCur \in {CurrentLookup(StoreOf(get1), content', currentIndex', now)} :
       \E put1 \in {PreloadCache(StoreOf(getCur), targets, 1, get1, now)} :
       \E get2 \in {PreloadLookup(put1, targets, 2, now)} :
       \E put2 \in {PreloadCache(StoreOf(get2), targets, 2, get2, now)} :
          /\ page' = IF throws THEN "crashed" ELSE page
          /\ vcCache' = IF runs THEN put2.cache ELSE vcCache
          /\ vcStorage' = IF runs THEN put2.storage ELSE vcStorage
          /\ tvPreloading' = IF runs
                             THEN tvPreloading \cup {targets[i].id : i \in DOMAIN targets}
                             ELSE tvPreloading
          /\ tvVideo' = IF ~mounted \/ throws THEN [src |-> NullUrl, state |-> "none"]
                        ELSE IF changed
                             THEN [src |-> OptimalUrl(getCur, CurrentItem(content', currentIndex')),
                                   state |-> "loading"]
                        ELSE IF tvVideo.state = "none" THEN [src |-> NullUrl, state |-> "idle"]
                        ELSE video
          /\ tvSocket' = IF throws THEN "none"
                         ELSE IF <<currentIndex', Len(content'), isOnline'>>
                                   # <<currentIndex, Len(content), isOnline>>
                              THEN "connecting"
                              ELSE tvSocket
          /\ UNCHANGED <<now, vcLast, lsFull, mpVars>>

\* queryFn resolves: the mapped rows, or [] for no rows and for any error.
TVFetchDone(files, ok) ==
    /\ page = "tv"
    /\ tvQuery.fetching
    /\ ok => isOnline
    /\ content' = IF ok /\ Len(files) > 0 THEN ToContent(files) ELSE <<>>
    /\ tvQuery' = [isLoading |-> FALSE, fetching |-> FALSE]
    /\ UNCHANGED <<currentIndex, isOnline, announcements, showingAnnouncement,
                   currentAnnouncementIndex, mediaAspectRatio, tvTimeouts,
                   preloadedVideos, tvAdvance>>
    /\ TVSettle(tvVideo)
    /\ UNCHANGED <<lsUuid, beVars, tvPush>>

\* refetchInterval: 30000
TVRefetch ==
    /\ page = "tv"
    /\ ~tvQuery.fetching
    /\ tvQuery' = [tvQuery EXCEPT !.fetching = TRUE]
    /\ UNCHANGED <<vcVars, pageVars, content, announcements, showingAnnouncement,
                   currentAnnouncementIndex, mediaAspectRatio, tvVideo, tvTimeouts,
                   tvSocket, preloadedVideos, tvPreloading, tvAdvance, mpVars>>
    /\ UNCHANGED <<lsUuid, beVars, tvPush>>

\* The announcements query resolves.
TVAnnouncementsFetched(anns) ==
    /\ page = "tv"
    /\ isOnline
    /\ anns # announcements
    /\ announcements' = anns
    /\ UNCHANGED <<currentIndex, isOnline, content, tvQuery, showingAnnouncement,
                   currentAnnouncementIndex, mediaAspectRatio, tvTimeouts,
                   preloadedVideos, tvAdvance>>
    /\ TVSettle(tvVideo)
    /\ UNCHANGED <<lsUuid, beVars, tvPush>>

\* The callback of the auto-advance interval; random is Math.random() < 0.3.
TVAutoAdvance(random) ==
    /\ page = "tv"
    /\ AutoAdvanceArmed(content, announcements)
    /\ IF showingAnnouncement
       THEN IF currentAnnouncementIndex < Len(announcements) - 1
            THEN /\ currentAnnouncementIndex' = currentAnnouncementIndex + 1
                 /\ UNCHANGED <<showingAnnouncement, currentIndex>>
            ELSE /\ showingAnnouncement' = FALSE
                 /\ currentAnnouncementIndex' = 0
                 /\ currentIndex' = IF Len(content) > 0
                                    THEN (currentIndex + 1) % Len(content)
                                    ELSE currentIndex
       ELSE IF Len(announcements) > 0 /\ random
            THEN /\ showingAnnouncement' = TRUE
                 /\ currentAnnouncementIndex' = 0
                 /\ UNCHANGED currentIndex
            ELSE /\ currentIndex' = IF Len(content) > 0
                                    THEN (currentIndex + 1) % Len(content)
                                    ELSE currentIndex
                 /\ UNCHANGED <<showingAnnouncement, currentAnnouncementIndex>>
    /\ tvAdvance' = "autoAdvance"
    /\ UNCHANGED <<isOnline, content, tvQuery, announcements, mediaAspectRatio,
                   tvTimeouts, preloadedVideos>>
    /\ TVSettle(tvVideo)
    /\ UNCHANGED <<lsUuid, beVars, tvPush>>

\* goToNext
NextIndex(idx, length) == IF length = 0 THEN idx ELSE (idx + 1) % length
\* goToPrevious
PreviousIndex(idx, length) == IF length = 0 THEN idx ELSE (idx - 1 + length) % length

\* A setCurrentIndex of a handler, and nothing else.
TVSetIndex(idx, by, video) ==
    /\ currentIndex' = idx
    /\ tvAdvance' = by
    /\ UNCHANGED <<isOnline, content, tvQuery, announcements, showingAnnouncement,
                   currentAnnouncementIndex, mediaAspectRatio, preloadedVideos>>
    /\ TVSettle(video)

\* The callback of the image interval.
TVImageTimer ==
    /\ page = "tv"
    /\ ImageTimerArmed(content, currentIndex)
    /\ UNCHANGED tvTimeouts
    /\ TVSetIndex(NextIndex(currentIndex, Len(content)), "imageTimer", tvVideo)
    /\ UNCHANGED <<lsUuid, beVars, tvPush>>

\* loadedmetadata of the <video>: the aspect ratio is taken, play() called.
TVLoadedMetadata(aspect) ==
    /\ page = "tv"
    /\ tvVideo.state = "loading"
    /\ mediaAspectRatio' = aspect
    /\ UNCHANGED <<currentIndex, isOnline, content, tvQuery, announcements,
                   showingAnnouncement, currentAnnouncementIndex, tvTimeouts,
                   preloadedVideos, tvAdvance>>
    /\ TVSettle([tvVideo EXCEPT !.state = "playing"])
    /\ UNCHANGED <<lsUuid, beVars, tvPush>>

\* onEnded
TVEnded ==
    /\ page = "tv"
    /\ tvVideo.state = "playing"
    /\ UNCHANGED tvTimeouts
    /\ TVSetIndex(NextIndex(currentIndex, Len(content)), "ended",
                  [tvVideo EXCEPT !.state = "ended"])
    /\ UNCHANGED <<lsUuid, beVars, tvPush>>

\* onError: goToNext is put off by 3 seconds.
TVError ==
    /\ page = "tv"
    /\ tvVideo.state \in {"loading", "playing"}
    /\ Len(tvTimeouts) < MaxTimeouts
    /\ tvTimeouts' = Append(tvTimeouts, Len(content))
    /\ UNCHANGED <<currentIndex, isOnline, content, tvQuery, announcements,
                   showingAnnouncement, currentAnnouncementIndex, mediaAspectRatio,
                   preloadedVideos, tvAdvance>>
    /\ TVSettle([tvVideo EXCEPT !.state = "error"])
    /\ UNCHANGED <<lsUuid, beVars, tvPush>>

\* The timeout of onError fires: goToNext of the render that set it.
TVErrorTimeout ==
    /\ page = "tv"
    /\ tvTimeouts # <<>>
    /\ tvTimeouts' = Tail(tvTimeouts)
    /\ TVSetIndex(NextIndex(currentIndex, Head(tvTimeouts)), "errorTimeout", tvVideo)
    /\ UNCHANGED <<lsUuid, beVars, tvPush>>

\* loadedmetadata / error of a hidden preload element.
TVPreloaded(id, ok) ==
    /\ page = "tv"
    /\ id \in tvPreloading
    /\ tvPreloading' = tvPreloading \ {id}
    /\ preloadedVideos' = IF ok THEN preloadedVideos \cup {id} ELSE preloadedVideos
    /\ UNCHANGED <<vcVars, pageVars, content, tvQuery, announcements,
                   showingAnnouncement, currentAnnouncementIndex, mediaAspectRatio,
                   tvVideo, tvTimeouts, tvSocket, tvAdvance, mpVars>>
    /\ UNCHANGED <<lsUuid, beVars, tvPush>>

\* videoElementRef.current.play() / .pause()
Played(video) ==
    IF video.state \in {"paused", "ended"} THEN [video EXCEPT !.state = "playing"]
    ELSE video
\* A pause that ends the video.
PausedAsEnded(video) ==
    IF video.state = "playing" THEN [video EXCEPT !.state = "ended"] ELSE video

Paused(video) ==
    IF video.state = "playing" THEN [video EXCEPT !.state = "paused"] ELSE video

TvCommands == {"play", "pause", "next", "previous", "restart"}

\* handleRemoteCommand, for a command the device socket delivers.
TVCommand(type) ==
    /\ page = "tv"
    /\ tvSocket = "connected"
    /\ UNCHANGED tvTimeouts
    /\ CASE type = "play" -> TVSetIndex(currentIndex, tvAdvance, Played(tvVideo))
         [] type = "pause" -> TVSetIndex(currentIndex, tvAdvance, Paused(tvVideo))
         [] type = "next" ->
              TVSetIndex(NextIndex(currentIndex, Len(content)), "next", tvVideo)
         [] type = "previous" ->
              TVSetIndex(PreviousIndex(currentIndex, Len(content)), "previous", tvVideo)
         [] type = "restart" -> TVSetIndex(0, "restart", tvVideo)
    /\ UNCHANGED <<lsUuid, beVars, tvPush>>

\* power_control with action restart: window.location.reload().  The page
\* mounts anew with a fresh VideoCache; localStorage stays.
TVReload ==
    /\ page = "tv"
    /\ tvSocket = "connected"
    /\ currentIndex' = 0
    /\ isOnline' = TRUE
    /\ content' = <<>>
    /\ tvQuery' = [isLoading |-> TRUE, fetching |-> TRUE]
    /\ announcements' = <<>>
    /\ showingAnnouncement' = FALSE
    /\ currentAnnouncementIndex' = 0
    /\ mediaAspectRatio' = "landscape"
    /\ tvVideo' = [src |-> NullUrl, state |-> "none"]
    /\ tvTimeouts' = <<>>
    /\ tvSocket' = "connecting"
    /\ preloadedVideos' = {}
    /\ tvPreloading' = {}
    /\ tvAdvance' = "none"
    /\ tvPush' = FALSE
    /\ vcCache' = <<>>
    /\ UNCHANGED <<page, vcStorage, now, vcLast, lsFull, mpVars>>
    /\ UNCHANGED <<lsUuid, beVars>>

\* window 'online' / 'offline'
TVConnectivity ==
    /\ page = "tv"
    /\ isOnline' = ~isOnline
    /\ UNCHANGED <<currentIndex, content, tvQuery, announcements, showingAnnouncement,
                   currentAnnouncementIndex, mediaAspectRatio, tvTimeouts,
                   preloadedVideos, tvAdvance>>
    /\ TVSettle(tvVideo)
    /\ UNCHANGED <<lsUuid, beVars, tvPush>>

\* 'connect' of the device socket.
TVSocketConnect ==
    /\ page = "tv"
    /\ tvSocket = "connecting"
    /\ isOnline
    /\ tvSocket' = "connected"
    /\ UNCHANGED <<vcVars, pageVars, content, tvQuery, announcements,
                   showingAnnouncement, currentAnnouncementIndex, mediaAspectRatio,
                   tvVideo, tvTimeouts, preloadedVideos, tvPreloading, tvAdvance,
                   mpVars>>
    /\ UNCHANGED <<lsUuid, beVars, tvPush>>

\* A JavaScript value with its type; a string of digits by the number it
\* spells.
JsNumber(n) == [type |-> "number", value |-> n]
JsString(n) == [type |-> "string", value |-> n]

\* a === b
StrictEquals(a, b) == a.type = b.type /\ a.value = b.value

\* deviceId of TVBoxDisplay: the 'device' parameter of the url, or
\* localStorage's tvbox_device_id; a string either way.
TvDeviceId == JsString(1)

\* The 'playlist:update' messages the server sends: device_id is
\* parseInt(deviceId), this device's or another's.
PlaylistUpdates == {[device_id |-> JsNumber(id)] : id \in {1, 2}}

\* 'playlist:update' on the device socket: refetch() when data.device_id
\* === deviceId.
TVPlaylistUpdate(data) ==
    /\ page = "tv"
    /\ tvSocket = "connected"
    /\ tvPush' = TRUE
    /\ tvQuery' = IF StrictEquals(data.device_id, TvDeviceId)
                  THEN [tvQuery EXCEPT !.fetching = TRUE]
                  ELSE tvQuery
    /\ UNCHANGED <<vcVars, pageVars, content, announcements, showingAnnouncement,
                   currentAnnouncementIndex, mediaAspectRatio, tvVideo, tvTimeouts,
                   tvSocket, preloadedVideos, tvPreloading, tvAdvance, mpVars>>
    /\ UNCHANGED <<lsUuid, beVars>>

TVInit ==
    /\ page = "tv"
    /\ lsFull = FALSE
    /\ VcFresh
    /\ TVMounted
    /\ MPIdle
    /\ BeIdle

TVNext ==
    \/ \E files \in FileLists, ok \in BOOLEAN : TVFetchDone(files, ok)
    \/ TVRefetch
    \/ \E data \in PlaylistUpdates : TVPlaylistUpdate(data)
    \/ \E anns \in AnnouncementLists : TVAnnouncementsFetched(anns)
    \/ \E random \in BOOLEAN : TVAutoAdvance(random)
    \/ TVImageTimer
    \/ \E aspect \in AspectRatios : TVLoadedMetadata(aspect)
    \/ TVEnded
    \/ TVError
    \/ TVErrorTimeout
    \/ \E id \in {f.id : f \in Files}, ok \in BOOLEAN : TVPreloaded(id, ok)
    \/ \E type \in TvCommands : TVCommand(type)
    \/ TVReload
    \/ TVConnectivity
    \/ TVSocketConnect

SpecTV == TVInit /\ [][TVNext]_vars

\* ------------------------------------------------- DeviceApp + MediaPlayer
\* (prev + 1) % playlist.length is NaN for an empty playlist, and NaN stays.
NaN == -2

\* Items of the manifest, as GET /player/:deviceId/manifest answers.  The
\* content ids 1 and 2 are videos, 3 is an image; only content 1 carries a
\* checksum.
ManifestItem(cid, type, seconds, checksum) ==
    [id |-> cid, content_id |-> cid, type |-> type, url |-> <<"media", cid>>,
     duration_seconds |-> seconds, checksum |-> checksum]

Video1 == ManifestItem(1, "video", 30, "d1")
Video1Changed == ManifestItem(1, "video", 30, "d2")
Video2 == ManifestItem(2, "video", 30, Null)
Image3 == ManifestItem(3, "image", 5, Null)
Image3Unset == ManifestItem(3, "image", 0, Null)
Image3Negative == ManifestItem(3, "image", -5, Null)
\* Rows of playlists JOIN content, as getDeviceManifest selects them.
PlaylistRow(cid, type, seconds, path) ==
    [content_id |-> cid, type |-> type, playlist_duration |-> seconds,
     content_duration |-> 30, file_path |-> path, checksum |-> Null]

\* The map of DeviceService.getDeviceManifest: the content id goes to the
\* field id, there is no field content_id.
GetDeviceManifestItem(row) ==
    [id |-> row.content_id, content_id |-> Undefined, type |-> row.type,
     url |-> IF row.file_path # Null THEN <<"media", row.content_id>> ELSE NullUrl,
     duration_seconds |-> IF row.type = "image"
                          THEN (IF Falsy(row.playlist_duration) THEN 10
                                ELSE row.playlist_duration)
                          ELSE row.content_duration,
     checksum |-> row.checksum]

Image3ById == GetDeviceManifestItem(PlaylistRow(3, "image", 0, "uploads/3.png"))
\* content whose file_path is NULL
Image2NoFile == GetDeviceManifestItem(PlaylistRow(2, "image", 5, Null))

Manifests == {<<>>, <<Image3ById, Image2NoFile>>, <<Video1, Video2, Image3>>,
              <<Video1Changed, Image3Negative, Image3Unset>>}

\* What deviceStorage may hold from a prior run.
PriorPlaylists == {<<>>, <<Video1, Video2, Image3>>}

\* The type of the medium behind a url.
MediaType(url) == IF url[2] = 3 THEN "image" ELSE "video"

\* item && item.content_id && item.url
Valid(item) == item.content_id # Undefined /\ item.content_id # 0 /\ item.url # NullUrl

\* The transform of loadPlaylist: filter, then map.
Transform(manifest) ==
    LET kept == SelectSeq(manifest, Valid)
    IN [i \in DOMAIN kept |->
           [id |-> kept[i].content_id, type |-> kept[i].type, url |-> kept[i].url,
            duration_seconds |-> kept[i].duration_seconds, active |-> TRUE,
            checksum |-> kept[i].checksum]]

\* setCurrentIndex((prev) => (prev + 1) % playlist.length)
Advance(idx, length) == IF idx = NaN \/ length = 0 THEN NaN ELSE (idx + 1) % length

\* The listeners of one event run one after the other, each with the
\* playlist length its handleMediaEnd closed over.
RECURSIVE AdvanceEach(_, _)
AdvanceEach(idx, lengths) ==
    IF lengths = <<>> THEN idx
    ELSE AdvanceEach(Advance(idx, Head(lengths)), Tail(lengths))

\* deviceStorage.isCached(url, checksum): an entry exists and, when a
\* checksum is given, its stored digest is that checksum.
IsCached(store, url, checksum) ==
    store[url] # Null /\ (checksum # Null => store[url] = checksum)

\* preloadMedia: the store after it and the url it returns.  ok: the fetch
\* of item.url answers 2xx.
PreloadMedia(store, item, ok) ==
    IF IsCached(store, item.url, item.checksum)
    THEN [store |-> store,
          url |-> [from |-> "cache", url |-> item.url, digest |-> store[item.url]]]
    ELSE IF ok
    THEN [store |-> IF item.checksum # Null
                    THEN [store EXCEPT ![item.url] = item.checksum]
                    ELSE store,
          url |-> [from |-> "network", url |-> item.url, digest |-> item.checksum]]
    ELSE [store |-> store,
          url |-> [from |-> "direct", url |-> item.url, digest |-> Null]]

\* currentItem.duration_seconds * 1000, in seconds.
TimeoutSeconds(item) == item.duration_seconds

\* The image timer effect sets a timeout.
ImageTimerSet(pl, idx) ==
    /\ HasCurrent(pl, idx)
    /\ pl[idx + 1].type = "image"
    /\ ~Falsy(pl[idx + 1].duration_seconds)

\* The render of MediaPlayer reaches the media display.
Displays(blocked, loading, error, pl, idx, url) ==
    /\ ~blocked
    /\ ~loading
    /\ ~(error # Null /\ pl = <<>>)
    /\ HasCurrent(pl, idx)
    /\ url # NoUrl

\* A loadCurrentMedia call past its guards: the item it loads and the next.
LoadOf(pl, idx) == [item |-> pl[idx + 1], next |-> pl[((idx + 1) % Len(pl)) + 1]]

\* The id of the item at the index, 0 when the index has no item.
ItemIdAt(pl, idx) == IF HasCurrent(pl, idx) THEN pl[idx + 1].id ELSE 0

\* A handler that emits no 'started' event: the history holds while the same
\* item stays at currentIndex.
StartedKept ==
    mpStarted' = (mpStarted /\ ItemIdAt(playlist', currentIndex') = ItemIdAt(playlist, currentIndex))

\* The render after a handler, and the effects it schedules.  The handler
\* leaves the playlist pl (plNew: by a setPlaylist), the index idx, the media
\* url (urlNew: another src), the element el, the pending loads and the
\* timer.  loadCurrentMedia skips an index without an item; the load, timer
\* and socket effects run again when the playlist or the index changed.
MPSettle(pl, plNew, idx, url, urlNew, el, loading, error, loads, timer) ==
    LET moved == plNew \/ idx # currentIndex
        skip == moved /\ pl # <<>> /\ ~HasCurrent(pl, idx)
        final == IF skip THEN Advance(idx, Len(pl)) ELSE idx
        starts == moved /\ pl # <<>> /\ HasCurrent(pl, final)
        kind == IF ~Displays(app'.isBlocked, loading, error, pl, final, url) THEN "none"
                ELSE IF pl[final + 1].type = "video" THEN "video"
                ELSE "img"
    IN /\ playlist' = pl
       /\ currentIndex' = final
       /\ currentMediaUrl' = url
       /\ mpLoading' = loading
       /\ mpError' = error
       /\ mpLoads' = IF starts THEN Append(loads, LoadOf(pl, final)) ELSE loads
       /\ Len(mpLoads') <= MaxLoads
       /\ mpTimer' = IF moved THEN ImageTimerSet(pl, final) ELSE timer
       /\ mpSocket' = IF moved \/ isOnline' # isOnline THEN "connecting" ELSE mpSocket
       /\ mpElement' = IF kind = "none" THEN NoElement
                       ELSE IF el.kind # kind
                            THEN [kind |-> kind, src |-> url, state |-> "loading",
                                  listeners |-> <<>>]
                       ELSE IF urlNew THEN [el EXCEPT !.src = url, !.state = "loading"]
                       ELSE el
       /\ UNCHANGED <<vcVars, tvVars>>

\* MediaPlayer mounts: the socket effect opens a socket, the initialize
\* effect calls loadPlaylist, which asks the server when online and reads
\* deviceStorage when not.
MPMount ==
    /\ mpCalls' = IF isOnline THEN 1 ELSE 0
    /\ UNCHANGED <<isOnline, mpDisturbance, persisted, mediaStore>>
    /\ mpStarted' = FALSE
    /\ IF isOnline
       THEN MPSettle(<<>>, FALSE, 0, NoUrl, FALSE, NoElement, TRUE, Null, <<>>, FALSE)
       ELSE MPSettle(persisted, TRUE, 0, NoUrl, FALSE, NoElement, FALSE, Null, <<>>, FALSE)

Statuses == {"200", "403", "404", "other"}

\* The device_uuid the UUID generation effect of DeviceOnboarding once stored.
StoredUuid == "7c9e6679-7425-40de-944b-e07fc1f90ae7"

\* initializeDevice, from its start to its finally.  status is the answer to
\* the manifest request: 200, 404, 403, or anything else, a request without
\* an answer included.
AppInitialized(status) ==
    /\ page = "mp"
    /\ app.phase = "init"
    /\ ~isOnline => status = "other"
    /\ IF lsDevice /\ status \in {"200", "403"}
       THEN /\ app' = [phase |-> "player", isBlocked |-> status = "403"]
            /\ UNCHANGED <<page, lsDevice, lsUuid>>
            /\ MPMount
       ELSE /\ lsDevice => status \in {"404", "other"}
            /\ ~lsDevice => status = "other"
            /\ lsDevice' = FALSE
            \* both catch branches remove device_uuid; without a stored
            \* token initializeDevice touches nothing
            /\ lsUuid' = IF lsDevice THEN Null ELSE lsUuid
            /\ app' = [phase |-> "onboarding", isBlocked |-> FALSE]
            \* DeviceOnboarding calls useEffect, which it does not import
            /\ page' = "crashed"
            /\ UNCHANGED <<vcVars, tvVars, currentIndex, isOnline, mpDisturbance,
                           playlist, persisted, mpLoading, mpError, mpCalls,
                           mediaStore, currentMediaUrl, mpLoads, mpElement,
                           mpTimer, mpSocket, mpStarted>>
    /\ UNCHANGED beVars

\* A loadPlaylist that takes a failed request for an empty answer.
LoadPlaylistResultEmptied(ok, manifest, stored, pl) ==
    LET got == IF ok THEN Transform(manifest) ELSE <<>>
    IN [persisted |-> got, playlist |-> got, set |-> TRUE, error |-> Null]

\* A loadPlaylist that sets the transformed manifest without saving it.
LoadPlaylistResultUnsaved(ok, manifest, stored, pl) ==
    IF ok
    THEN [persisted |-> stored, playlist |-> Transform(manifest),
          set |-> TRUE, error |-> Null]
    ELSE IF Len(stored) > 0
    THEN [persisted |-> stored, playlist |-> stored, set |-> TRUE, error |-> "cache"]
    ELSE [persisted |-> stored, playlist |-> pl, set |-> FALSE, error |-> "none"]

\* What loadPlaylist leaves behind once its request is settled: try (ok: the
\* request is answered and savePlaylist resolves) saves and then sets the
\* transformed manifest; catch (the request failed or savePlaylist threw)
\* sets the stored playlist when it is not empty.
LoadPlaylistResult(ok, manifest, stored, pl) ==
    IF ok
    THEN [persisted |-> Transform(manifest), playlist |-> Transform(manifest),
          set |-> TRUE, error |-> Null]
    ELSE IF Len(stored) > 0
    THEN [persisted |-> stored, playlist |-> stored, set |-> TRUE, error |-> "cache"]
    ELSE [persisted |-> stored, playlist |-> pl, set |-> FALSE, error |-> "none"]

\* The manifest request of a loadPlaylist call is answered (ok) or fails.
MPManifestResponse(ok, manifest) ==
    /\ page = "mp"
    /\ app.phase = "player"
    /\ mpCalls > 0
    /\ ok => isOnline
    /\ mpCalls' = mpCalls - 1
    /\ LET left == LoadPlaylistResult(ok, manifest, persisted, playlist)
       IN /\ persisted' = left.persisted
          /\ mpDisturbance' = IF ~ok THEN "error"
                                 ELSE IF playlist # <<>> THEN "reload"
                                 ELSE mpDisturbance
          /\ UNCHANGED <<page, isOnline, lsDevice, app, mediaStore>>
          /\ MPSettle(left.playlist, left.set, currentIndex, currentMediaUrl, FALSE,
                      mpElement, FALSE, left.error, mpLoads, mpTimer)
          /\ StartedKept
    /\ UNCHANGED <<lsUuid, beVars>>

\* The manifest request of a loadPlaylist call is answered with a status:
\* api.get resolves for 200 and rejects for every other one, and the catch
\* of loadPlaylist does not look at the status.
MPManifestAnswered(status, manifest) ==
    /\ isOnline
    /\ MPManifestResponse(status = "200", manifest)

\* window 'online' / 'offline'.  handleOnline calls the loadPlaylist of the
\* offline render, which reads deviceStorage; the initialize effect then
\* calls the new loadPlaylist.
MPConnectivity ==
    /\ page = "mp"
    /\ isOnline' = ~isOnline
    /\ UNCHANGED <<page, lsDevice, app, persisted, mediaStore>>
    /\ IF app.phase # "player"
       THEN UNCHANGED <<vcVars, tvVars, currentIndex, playlist, mpLoading, mpError,
                        mpCalls, currentMediaUrl, mpLoads, mpElement, mpTimer,
                        mpSocket, mpDisturbance, mpStarted>>
       ELSE /\ mpDisturbance' = "reload"
            /\ mpCalls' = IF isOnline' THEN mpCalls + 1 ELSE mpCalls
            /\ mpCalls' <= MaxCalls
            /\ MPSettle(persisted, TRUE, currentIndex, currentMediaUrl, FALSE,
                        mpElement, FALSE, Null, mpLoads, mpTimer)
            /\ StartedKept
    /\ UNCHANGED <<lsUuid, beVars>>

\* 'playlist:update' for this device: loadPlaylist.
MPPlaylistUpdate ==
    /\ page = "mp"
    /\ app.phase = "player"
    /\ mpSocket = "connected"
    /\ isOnline
    /\ mpCalls < MaxCalls
    /\ mpCalls' = mpCalls + 1
    /\ mpDisturbance' = "reload"
    /\ UNCHANGED <<page, isOnline, lsDevice, app, persisted, mediaStore>>
    /\ MPSettle(playlist, FALSE, currentIndex, currentMediaUrl, FALSE, mpElement,
                TRUE, mpError, mpLoads, mpTimer)
    /\ StartedKept
    /\ UNCHANGED <<lsUuid, beVars>>

Without(seq, i) == SubSeq(seq, 1, i - 1) \o SubSeq(seq, i + 1, Len(seq))

\* A loadCurrentMedia call gets its media: preloadMedia of the item, then
\* of the next item; it then emits 'playback:event' with action 'started'
\* for the item it loaded.
MPMediaLoaded(i, ok) ==
    /\ page = "mp"
    /\ i \in DOMAIN mpLoads
    /\ ok => isOnline
    /\ LET cur == PreloadMedia(mediaStore, mpLoads[i].item, ok)
           next == PreloadMedia(cur.store, mpLoads[i].next, ok)
       IN /\ mediaStore' = next.store
          /\ mpDisturbance' = IF "direct" \in {cur.url.from, next.url.from}
                                 THEN "error"
                                 ELSE mpDisturbance
          /\ UNCHANGED <<page, isOnline, lsDevice, app, persisted, mpCalls>>
          /\ MPSettle(playlist, FALSE, currentIndex, cur.url,
                      cur.url.from # "direct" \/ cur.url # currentMediaUrl,
                      mpElement, mpLoading, mpError, Without(mpLoads, i), mpTimer)
          /\ mpStarted' = (mpStarted \/ mpLoads[i].item.id = ItemIdAt(playlist, currentIndex))
    /\ UNCHANGED <<lsUuid, beVars>>

\* A handler of the player that calls setCurrentIndex and nothing else; by:
\* the disturbance the handler stands for, mpDisturbance when it is the
\* natural end of an item.
MPSetIndex(idx, by, el, timer) ==
    /\ mpDisturbance' = by
    /\ UNCHANGED <<page, isOnline, lsDevice, app, persisted, mpCalls, mediaStore>>
    /\ MPSettle(playlist, FALSE, idx, currentMediaUrl, FALSE, el, mpLoading,
                mpError, mpLoads, timer)
    /\ StartedKept

\* onLoadedData of the <video>: setupVideoHandlers adds its listeners; the
\* function it returns to remove them is dropped.
MPLoadedData ==
    /\ page = "mp"
    /\ mpElement.kind = "video"
    /\ mpElement.state = "loading"
    /\ MediaType(mpElement.src.url) = "video"
    /\ Len(mpElement.listeners) < MaxListeners
    /\ MPSetIndex(currentIndex, mpDisturbance,
                  [mpElement EXCEPT !.state = "playing",
                                    !.listeners = Append(@, Len(playlist))],
                  mpTimer)
    /\ UNCHANGED <<lsUuid, beVars>>

\* 'ended' of the <video>: every listener on it runs handleMediaEnd.
MPVideoEnded ==
    /\ page = "mp"
    /\ mpElement.kind = "video"
    /\ mpElement.state = "playing"
    /\ MPSetIndex(AdvanceEach(currentIndex, mpElement.listeners), mpDisturbance,
                  [mpElement EXCEPT !.state = "ended"], mpTimer)
    /\ UNCHANGED <<lsUuid, beVars>>

\* The browser cannot play the src: the fetch of the item had failed, or
\* the url is still the one of the image before.
Unplayable(src, type) == src.from = "direct" \/ MediaType(src.url) # type

\* handleError of every listener setupVideoHandlers added to the <video>:
\* each emits one 'error:report' on the socket of its render, then calls
\* handleMediaEnd.  The number of reports one 'error' event leaves.
ErrorReports(el) == Len(el.listeners)

\* 'error' of the <video>: the src cannot be played, or the playback of a
\* playing video fails.
MPVideoError ==
    /\ page = "mp"
    /\ mpElement.kind = "video"
    /\ mpElement.state \in {"loading", "playing"}
    /\ mpElement.state = "loading" => Unplayable(mpElement.src, "video")
    /\ MPSetIndex(AdvanceEach(currentIndex, mpElement.listeners), "error",
                  [mpElement EXCEPT !.state = "error"], mpTimer)
    /\ UNCHANGED <<lsUuid, beVars>>

\* 'load' of the <img>
MPImageLoaded ==
    /\ page = "mp"
    /\ mpElement.kind = "img"
    /\ mpElement.state = "loading"
    /\ MediaType(mpElement.src.url) = "image"
    /\ MPSetIndex(currentIndex, mpDisturbance, [mpElement EXCEPT !.state = "shown"],
                  mpTimer)
    /\ UNCHANGED <<lsUuid, beVars>>

\* onError of the <img>
MPImageError ==
    /\ page = "mp"
    /\ mpElement.kind = "img"
    /\ mpElement.state = "loading"
    /\ Unplayable(mpElement.src, "image")
    /\ MPSetIndex(Advance(currentIndex, Len(playlist)), "error",
                  [mpElement EXCEPT !.state = "error"], mpTimer)
    /\ UNCHANGED <<lsUuid, beVars>>

\* The timeout of the image timer effect.
MPImageTimer ==
    /\ page = "mp"
    /\ mpTimer
    /\ MPSetIndex(Advance(currentIndex, Len(playlist)), mpDisturbance, mpElement,
                  FALSE)
    /\ UNCHANGED <<lsUuid, beVars>>

\* The command types the device socket can deliver; handleCommand has no
\* case for 'previous'.
MpCommands == {"play", "pause", "next", "previous", "restart"}

\* handleCommand, for a command the device socket delivers.
MPCommand(type) ==
    /\ page = "mp"
    /\ mpSocket = "connected"
    /\ CASE type = "play" ->
              MPSetIndex(currentIndex, mpDisturbance,
                         IF mpElement.kind = "video" THEN Played(mpElement) ELSE mpElement,
                         mpTimer)
         [] type = "pause" ->
              MPSetIndex(currentIndex, mpDisturbance,
                         IF mpElement.kind = "video" THEN Paused(mpElement) ELSE mpElement,
                         mpTimer)
         [] type = "next" ->
              MPSetIndex(Advance(currentIndex, Len(playlist)), "command", mpElement,
                         mpTimer)
         [] type = "restart" -> MPSetIndex(0, "command", mpElement, mpTimer)
         \* default: console.log('Unknown command:', command)
         [] type = "previous" ->
              MPSetIndex(currentIndex, "command", mpElement, mpTimer)
    /\ UNCHANGED <<lsUuid, beVars>>

\* The payload the heartbeat interval of a device socket emits: the values
\* the run of the socket effect that made the socket closed over.
\* currentItem 0: null.
Beat(pl, idx, online) ==
    [currentItem |-> IF HasCurrent(pl, idx) THEN pl[idx + 1].id ELSE 0,
     playlistVersion |-> Len(pl),
     isOnline |-> online]

\* The heartbeats the intervals of the connected device sockets emit when
\* they fire next.  The cleanup that disconnects the socket is returned by
\* initWebSocket, not by the effect, so no run of the effect disconnects
\* the socket of the run before; the socket of the mount (playlist [],
\* currentIndex 0) stays, and is taken to be connected while the last one is.
Heartbeats ==
    IF page = "mp" /\ mpSocket = "connected"
    THEN {Beat(playlist, currentIndex, isOnline)}
         \cup {Beat(<<>>, 0, online) : online \in BOOLEAN}
    ELSE {}

\* 'connect' of the device socket.
MPSocketConnect ==
    /\ page = "mp"
    /\ mpSocket = "connecting"
    /\ isOnline
    /\ mpSocket' = "connected"
    /\ UNCHANGED <<vcVars, tvVars, pageVars, lsDevice, app, playlist, persisted,
                   mpLoading, mpError, mpCalls, mediaStore, currentMediaUrl,
                   mpLoads, mpElement, mpTimer, mpDisturbance, mpStarted>>
    /\ UNCHANGED <<lsUuid, beVars>>

\* 'disconnect' of the device socket: the heartbeat interval is cleared, and
\* socket.io connects again.
MPSocketDisconnect ==
    /\ page = "mp"
    /\ mpSocket = "connected"
    /\ mpSocket' = "connecting"
    /\ UNCHANGED <<vcVars, tvVars, pageVars, lsDevice, app, playlist, persisted,
                   mpLoading, mpError, mpCalls, mediaStore, currentMediaUrl,
                   mpLoads, mpElement, mpTimer, mpDisturbance, mpStarted>>
    /\ UNCHANGED <<lsUuid, beVars>>

\* The browser opens the device route.
MPInit ==
    /\ page = "mp"
    /\ lsFull = FALSE
    /\ VcFresh
    /\ TVIdle
    /\ currentIndex = 0
    /\ isOnline \in BOOLEAN
    /\ lsDevice \in BOOLEAN
    \* handleSubmit stores the token of a registration it made with the
    \* stored device_uuid
    /\ lsUuid \in (IF lsDevice THEN {StoredUuid} ELSE {Null, StoredUuid})
    /\ app = [phase |-> "init", isBlocked |-> FALSE]
    /\ playlist = <<>>
    /\ persisted \in {Transform(m) : m \in PriorPlaylists}
    /\ mpLoading = TRUE
    /\ mpError = Null
    /\ mpCalls = 0
    /\ mediaStore = [u \in MediaUrls |-> Null]
    /\ currentMediaUrl = NoUrl
    /\ mpLoads = <<>>
    /\ mpElement = NoElement
    /\ mpTimer = FALSE
    /\ mpSocket = "none"
    /\ mpDisturbance = "none"
    /\ mpStarted = FALSE
    /\ BeIdle

MPNext ==
    \/ \E status \in Statuses : AppInitialized(status)
    \/ \E ok \in BOOLEAN, manifest \in Manifests : MPManifestResponse(ok, manifest)
    \/ MPConnectivity
    \/ MPPlaylistUpdate
    \/ \E i \in 1..MaxLoads, ok \in BOOLEAN : MPMediaLoaded(i, ok)
    \/ MPLoadedData
    \/ MPVideoEnded
    \/ MPVideoError
    \/ MPImageLoaded
    \/ MPImageError
    \/ MPImageTimer
    \/ \E type \in MpCommands : MPCommand(type)
    \/ MPSocketConnect
    \/ MPSocketDisconnect

SpecMP == MPInit /\ [][MPNext]_vars

\* What the browser does on its own, sooner or later: requests and fetches
\* settle, media elements fire their events, timeouts expire.
MPFairness ==
    /\ WF_vars(\E ok \in BOOLEAN, manifest \in Manifests : MPManifestResponse(ok, manifest))
    /\ WF_vars(\E i \in 1..MaxLoads, ok \in BOOLEAN : MPMediaLoaded(i, ok))
    /\ WF_vars(MPLoadedData)
    /\ WF_vars(MPVideoEnded)
    /\ WF_vars(MPVideoError)
    /\ WF_vars(MPImageLoaded)
    /\ WF_vars(MPImageError)
    /\ WF_vars(MPImageTimer)

FairSpecMP == MPInit /\ [][MPNext]_vars /\ MPFairness

\* ------------------------------------------------------- the player pages
\* The browser opens the device route (DeviceApp) or the display route
\* (TVBoxDisplay).
Init == TVInit \/ MPInit

Next == TVNext \/ MPNext

Spec == Init /\ [][Next]_vars

\* ------------------------------------------------------------- the server
\* POST /api/devices/register and GET /api/player/:deviceId/manifest, each
\* request handled from its first middleware to its response.

\* The table holds at most MaxDevices rows.
MaxDevices == 2

\* device_uuid of a request body: absent, two version 4 UUIDs, and the
\* 'test-uuid-2' of tests/devices.test.js.
Absent == "undefined"
UuidA == StoredUuid
UuidB == "0b4c3f0e-9d1a-4c5e-8f7a-2a6d1e3b9c41"
TestUuid == "test-uuid-2"
BodyUuids == {Absent, UuidA, UuidB, TestUuid}

\* Joi.string().uuid({ version: 'uuidv4' }): 8-4-4-4-12 hexadecimal digits,
\* the third group starting with 4, the fourth with 8, 9, a or b.
IsUuidV4(text) == text \in {UuidA, UuidB}

\* name of a request body, by its characters: absent (no character),
\* 'Lobby TV', 'TV', 'Televisão'.
NameChars == {"L", "o", "b", "y", " ", "T", "V", "e", "l", "v", "i", "s"}
BodyNames == {<<>>, <<"L", "o", "b", "b", "y", " ", "T", "V">>, <<"T", "V">>,
              <<"T", "e", "l", "e", "v", "i", "s", "ã", "o">>}

\* Joi.string().min(2).max(100).pattern(/^[a-zA-Z0-9\s\-_]+$/).required()
NameOk(name) ==
    /\ Len(name) >= 2
    /\ Len(name) <= 100
    /\ \A i \in 1..Len(name) : name[i] \in NameChars

\* tenant_id of a request body: absent, 0, 1, 2.
BodyTenants == {Undefined, 0, 1, 2}

\* model of a request body: 'Test Model' of tests/devices.test.js, and the
\* navigator.userAgent that DeviceOnboarding sends.
TestModel == "Test Model"
UserAgent == "Mozilla/5.0 (X11; Linux x86_64) AppleWebKit/537.36 (KHTML, like Gecko) Chrome/120.0.0.0 Safari/537.36"
BodyModels == {TestModel, UserAgent}

\* Joi.string().max(100).pattern(/^[a-zA-Z0-9\s\-_x]+$/).optional(): a user
\* agent has '/', '(', ';', '.' and ','.
ModelOk(model) == model = TestModel

Bodies == [device_uuid : BodyUuids, name : BodyNames, model : BodyModels,
           tenant_id : BodyTenants]

\* validate(schemas.deviceRegister): the body as the route sees it (tenant_id
\* defaults to 1), or the 400 of the middleware.
Validate(body) ==
    IF /\ NameOk(body.name)
       /\ body.device_uuid # Absent => IsUuidV4(body.device_uuid)
       /\ ModelOk(body.model)
       /\ body.tenant_id # Undefined => body.tenant_id > 0
    THEN [ok |-> TRUE,
          value |-> [body EXCEPT !.tenant_id = IF @ = Undefined THEN 1 ELSE @]]
    ELSE [ok |-> FALSE, value |-> body]

DeviceToken(id, tenant) ==
    [kind |-> "signed", device_id |-> id, tenant_id |-> tenant, role |-> "device"]

\* A SELECT that matches on the UUID alone.
SelectDevicesAnyTenant(rows, uuid, tenant) ==
    SelectSeq(rows, LAMBDA row : row.device_id = uuid)

\* SELECT ... FROM devices WHERE device_id = ? AND tenant_id = ?
SelectDevices(rows, uuid, tenant) ==
    SelectSeq(rows, LAMBDA row : row.device_id = uuid /\ row.tenant_id = tenant)

\* UPDATE devices SET last_seen = NOW(), name = COALESCE(?, name) WHERE id = ?
DeviceUpdated(rows, id, name) ==
    [i \in DOMAIN rows |->
        IF rows[i].id = id THEN [rows[i] EXCEPT !.name = name] ELSE rows[i]]

\* INSERT INTO devices (device_id, name, location, status, tenant_id, ...):
\* the UUID goes to column device_id, and column device_uuid, which the
\* statement does not name, is NULL.
DeviceInserted(rows, uuid, name, tenant) ==
    Append(rows, [id |-> Len(rows) + 1, device_id |-> uuid, name |-> name,
                  tenant_id |-> tenant, device_uuid |-> SqlNull])

\* UNIQUE KEY ux_device_uuid_tenant (device_uuid, tenant_id) refuses a row:
\* rows whose device_uuid is NULL never collide.
DuplicateKey(rows, device_uuid, tenant) ==
    /\ device_uuid # SqlNull
    /\ \E i \in DOMAIN rows :
          rows[i].device_uuid = device_uuid /\ rows[i].tenant_id = tenant

\* registerDevice: the table it leaves, the device it returns and isNew; or
\* the error it throws.
RegisterDevice(rows, value) ==
    IF value.device_uuid = Absent \/ Falsy(value.tenant_id)
    THEN [thrown |-> TRUE, rows |-> rows, id |-> 0, isNew |-> FALSE]
    ELSE LET existing == SelectDevices(rows, value.device_uuid, value.tenant_id)
         IN IF Len(existing) > 0
            THEN [thrown |-> FALSE,
                  rows |-> DeviceUpdated(rows, existing[1].id, value.name),
                  id |-> existing[1].id, isNew |-> FALSE]
            ELSE [thrown |-> FALSE,
                  rows |-> DeviceInserted(rows, value.device_uuid, value.name,
                                          value.tenant_id),
                  id |-> Len(rows) + 1, isNew |-> TRUE]

\* POST /register: validate, then the route handler.
Register(body) ==
    /\ page = "server"
    /\ \E checked \in {Validate(body)} :
       IF ~checked.ok
       THEN /\ beRes' = [NoResponse EXCEPT !.route = "register", !.status = 400,
                                          !.error = "Dados de entrada inválidos"]
            /\ UNCHANGED <<beDevices, beTokens>>
       ELSE \E done \in {RegisterDevice(beDevices, checked.value)} :
            /\ Len(done.rows) <= MaxDevices
            /\ beDevices' = done.rows
            /\ IF done.thrown
               THEN /\ beRes' = [NoResponse EXCEPT
                                    !.route = "register", !.status = 500,
                                    !.error = "device_uuid and tenant_id are required"]
                    /\ UNCHANGED beTokens
               ELSE /\ beTokens' = beTokens \cup
                                   {DeviceToken(done.id, checked.value.tenant_id)}
                    /\ beRes' = [NoResponse EXCEPT
                                    !.route = "register",
                                    !.status = IF done.isNew THEN 201 ELSE 200,
                                    !.success = TRUE,
                                    !.device = done.id,
                                    !.token = DeviceToken(done.id, checked.value.tenant_id)]
    /\ UNCHANGED <<vcVars, pageVars, tvVars, mpVars, lsUuid, svcVars>>

\* The :deviceId of a manifest request, by its characters.
DigitOf == [c \in {"0", "1", "2", "3", "4", "5", "6", "7", "8", "9"} |->
               CASE c = "0" -> 0 [] c = "1" -> 1 [] c = "2" -> 2 [] c = "3" -> 3
                 [] c = "4" -> 4 [] c = "5" -> 5 [] c = "6" -> 6 [] c = "7" -> 7
                 [] c = "8" -> 8 [] c = "9" -> 9]
DeviceIdParams == {<<"1">>, <<"2">>, <<"3">>, <<"9", "9">>, <<"1", "a">>, <<"a">>}

RECURSIVE LeadingDigits(_, _)
LeadingDigits(text, sofar) ==
    IF Len(text) = 0 \/ Head(text) \notin DOMAIN DigitOf
    THEN sofar
    ELSE LeadingDigits(Tail(text), 10 * sofar + DigitOf[Head(text)])

\* parseInt: the number its leading digits write, NaN without a leading digit.
ParseInt(text) ==
    IF Len(text) = 0 \/ Head(text) \notin DOMAIN DigitOf
    THEN NaN
    ELSE LeadingDigits(text, 0)

\* The Authorization header of a manifest request: none, a token that
\* jwt.verify refuses, a user's token, or a token registerDevice signed.
GarbageToken == [NoToken EXCEPT !.kind = "garbage"]
UserToken == [kind |-> "signed", device_id |-> 0, tenant_id |-> 1, role |-> "admin"]
RequestTokens == {NoToken, GarbageToken, UserToken} \cup beTokens

\* playlists JOIN content of a device, ORDER BY order_index: device 1 shows
\* two images, every other device nothing.
PlaylistRows(id) ==
    IF id = 1
    THEN <<PlaylistRow(3, "image", 0, "uploads/3.png"), PlaylistRow(2, "image", 5, Null)>>
    ELSE <<>>

\* getDeviceManifest; MySQL compares the text of :deviceId with the numeric
\* column by its leading digits.  dbOk: db.execute resolves; when it throws,
\* catch returns [].
GetDeviceManifest(text, dbOk) ==
    LET rows == PlaylistRows(ParseInt(text))
    IN IF dbOk THEN [i \in DOMAIN rows |-> GetDeviceManifestItem(rows[i])]
       ELSE <<>>

\* authenticateDevice: the status and error it answers, 200 where it calls
\* next().  jwt.verify throws for a token that is malformed, wrongly signed
\* or expired.
AuthenticateDevice(token) ==
    IF token.kind = "absent"
    THEN [status |-> 401, error |-> "No token provided"]
    ELSE IF token.kind # "signed"
    THEN [status |-> 403, error |-> "Invalid or expired token"]
    ELSE IF token.role # "device"
    THEN [status |-> 403, error |-> "Invalid token role"]
    ELSE [status |-> 200, error |-> Null]

\* The status as initializeDevice tells it apart: 404, 403, success, or
\* anything else.
DeviceSees(status) ==
    CASE status = 200 -> "200"
      [] status = 403 -> "403"
      [] status = 404 -> "404"
      [] OTHER -> "other"

\* The check of the route that accepts every token of a device.
IdMismatchNever(text, token) == FALSE

\* parseInt(deviceId) !== req.device.id
IdMismatch(text, token) == ParseInt(text) # token.device_id

\* GET /:deviceId/manifest: authenticateDevice, then the route handler.
GetManifest(text, token, dbOk) ==
    /\ page = "server"
    /\ token \in RequestTokens
    /\ beRes' =
         IF AuthenticateDevice(token).status # 200
         THEN [NoResponse EXCEPT !.route = "manifest",
                                 !.status = AuthenticateDevice(token).status,
                                 !.error = AuthenticateDevice(token).error]
         ELSE IF IdMismatch(text, token)
         THEN [NoResponse EXCEPT !.route = "manifest", !.status = 403,
                                 !.error = "Device ID mismatch"]
         ELSE [NoResponse EXCEPT !.route = "manifest", !.status = 200,
                                 !.success = TRUE, !.device = ParseInt(text),
                                 !.hasData = TRUE,
                                 !.data = GetDeviceManifest(text, dbOk)]
    /\ UNCHANGED <<beDevices, beTokens>>
    /\ UNCHANGED <<vcVars, pageVars, tvVars, mpVars, lsUuid, svcVars>>

\* A request for the manifest of some device with some token.
ManifestRequest(dbOk) ==
    \E text \in DeviceIdParams, token \in RequestTokens : GetManifest(text, token, dbOk)

BeInit ==
    /\ page = "server"
    /\ lsFull = FALSE
    /\ VcFresh
    /\ currentIndex = 0
    /\ isOnline = TRUE
    /\ TVIdle
    /\ MPIdle
    /\ BeIdle

BeNext ==
    \/ \E body \in Bodies : Register(body)
    \/ \E dbOk \in BOOLEAN : ManifestRequest(dbOk)

SpecServer == BeInit /\ [][BeNext]_vars

\* ------------------------------------------------- the socket namespaces
\* The /devices namespace of the socket server and the registry of
\* DeviceService.  A socket is [id, deviceId]; socket.data.deviceId was set
\* by the namespace's authentication middleware.

\* Socket ids are taken from 1 .. MaxSockets.
MaxSockets == 4

\* The sockets there can be.
Sockets == [id : 1 .. MaxSockets, deviceId : SocketDevices]

\* markConnected: this.deviceSockets.set(deviceId, socketId).  (The UPDATE
\* of last_seen it starts is not awaited and changes no state of the model.)
MarkConnected(registry, deviceId, socketId) == [registry EXCEPT ![deviceId] = socketId]

\* markDisconnected: this.deviceSockets.delete(deviceId).
MarkDisconnected(registry, deviceId) == [registry EXCEPT ![deviceId] = NoSocket]

\* getDeviceSocket
GetDeviceSocket(registry, deviceId) == registry[deviceId]

\* devicesNS.on('connection'): a device's socket connected.
IoConnection(deviceId) ==
    /\ page = "io"
    /\ ioIssued < MaxSockets
    /\ ioIssued' = ioIssued + 1
    /\ nsSockets' = nsSockets \cup {[id |-> ioIssued', deviceId |-> deviceId]}
    /\ deviceSockets' = MarkConnected(deviceSockets, deviceId, ioIssued')
    /\ UNCHANGED ioSent
    /\ UNCHANGED <<vcVars, pageVars, tvVars, mpVars, lsUuid, beDevices, beTokens, beRes, bfVars, regCalls, fxVars>>

\* socket.on('disconnect'): the socket has left the namespace.
IoDisconnect(socket) ==
    /\ page = "io"
    /\ socket \in nsSockets
    /\ nsSockets' = nsSockets \ {socket}
    /\ deviceSockets' = MarkDisconnected(deviceSockets, socket.deviceId)
    /\ UNCHANGED <<ioIssued, ioSent>>
    /\ UNCHANGED <<vcVars, pageVars, tvVars, mpVars, lsUuid, beDevices, beTokens, beRes, bfVars, regCalls, fxVars>>

\* The answer to an admin's 'device:command' for device_id.
CommandSent(registry, sockets, device_id) ==
    IF GetDeviceSocket(registry, device_id) = NoSocket
    THEN [device_id |-> device_id, success |-> FALSE,
          error |-> "Device not connected", to |-> NoSocket]
    ELSE IF \E socket \in sockets : socket.id = GetDeviceSocket(registry, device_id)
    THEN [device_id |-> device_id, success |-> TRUE, error |-> Null,
          to |-> GetDeviceSocket(registry, device_id)]
    ELSE [device_id |-> device_id, success |-> FALSE,
          error |-> "Device socket not found", to |-> NoSocket]

\* socket.on('device:command') of an admin socket.
IoDeviceCommand(device_id) ==
    /\ page = "io"
    /\ ioSent' = CommandSent(deviceSockets, nsSockets, device_id)
    /\ UNCHANGED <<deviceSockets, nsSockets, ioIssued>>
    /\ UNCHANGED <<vcVars, pageVars, tvVars, mpVars, lsUuid, beDevices, beTokens, beRes, bfVars, regCalls, fxVars>>

IoInit ==
    /\ page = "io"
    /\ lsFull = FALSE
    /\ VcFresh
    /\ currentIndex = 0
    /\ isOnline = TRUE
    /\ TVIdle
    /\ MPIdle
    /\ BeIdle

IoNext ==
    \/ \E deviceId \in SocketDevices : IoConnection(deviceId)
    \/ \E socket \in Sockets : IoDisconnect(socket)
    \/ \E device_id \in SocketDevices : IoDeviceCommand(device_id)

SpecSockets == IoInit /\ [][IoNext]_vars

\* ------------------------------------------ the socket effect of a player
\* The effect that opens the device socket, in MediaPlayer (page "mpfx")
\* and in TVBoxDisplay (page "tvfx"), with the changes of its dependencies
\* as inputs: currentIndex over a playlist of FxItems items, and isOnline.
\* A socket is [run, index, online, state]: the run of the effect that
\* opened it, the currentIndex and isOnline that run closed over, and
\* "connecting" or "connected"; a connected socket has its heartbeat
\* interval running.

\* The effect runs at most MaxEffectRuns times.
MaxEffectRuns == 3
FxItems == 3

\* What the cleanup of the run before leaves of the sockets.  TVBoxDisplay's
\* effect returns () => deviceSocket.disconnect(); MediaPlayer's effect
\* calls the async initWebSocket and returns nothing, so the function that
\* initWebSocket resolves to is never called.
AfterCleanup(player, sockets) == IF player = "tvfx" THEN {} ELSE sockets

\* A run of the effect: the cleanup of the run before, then a new socket.
EffectRun(player, sockets, run, index, online) ==
    AfterCleanup(player, sockets)
      \cup {[run |-> run, index |-> index, online |-> online, state |-> "connecting"]}

\* The component mounts and the effect runs for the first time.
FxMount ==
    /\ page \in {"mpfx", "tvfx"}
    /\ fxRuns = 0
    /\ fxRuns' = 1
    /\ fxSockets' = EffectRun(page, fxSockets, 1, currentIndex, isOnline)
    /\ UNCHANGED <<vcVars, pageVars, tvVars, mpVars, lsUuid, beDevices, beTokens, beRes,
                   ioVars, bfVars, regCalls>>

\* setCurrentIndex(index): the effect runs again.
FxIndexChanged(index) ==
    /\ page \in {"mpfx", "tvfx"}
    /\ fxRuns > 0 /\ fxRuns < MaxEffectRuns
    /\ index # currentIndex
    /\ currentIndex' = index
    /\ fxRuns' = fxRuns + 1
    /\ fxSockets' = EffectRun(page, fxSockets, fxRuns', index, isOnline)
    /\ UNCHANGED <<vcVars, page, isOnline, tvVars, mpVars, lsUuid, beDevices, beTokens,
                   beRes, ioVars, bfVars, regCalls>>

\* 'online' or 'offline' of the window: the effect runs again.
FxOnlineChanged ==
    /\ page \in {"mpfx", "tvfx"}
    /\ fxRuns > 0 /\ fxRuns < MaxEffectRuns
    /\ isOnline' = ~isOnline
    /\ fxRuns' = fxRuns + 1
    /\ fxSockets' = EffectRun(page, fxSockets, fxRuns', currentIndex, isOnline')
    /\ UNCHANGED <<vcVars, page, currentIndex, tvVars, mpVars, lsUuid, beDevices,
                   beTokens, beRes, ioVars, bfVars, regCalls>>

\* 'connect' of a device socket: its heartbeat interval is set.
FxConnect(socket) ==
    /\ page \in {"mpfx", "tvfx"}
    /\ socket \in fxSockets /\ socket.state = "connecting"
    /\ isOnline
    /\ fxSockets' = (fxSockets \ {socket}) \cup {[socket EXCEPT !.state = "connected"]}
    /\ UNCHANGED fxRuns
    /\ UNCHANGED <<vcVars, pageVars, tvVars, mpVars, lsUuid, beDevices, beTokens, beRes,
                   ioVars, bfVars, regCalls>>

\* 'disconnect' of a device socket that lost its transport: its heartbeat
\* interval is cleared, and socket.io connects it again.
FxDisconnect(socket) ==
    /\ page \in {"mpfx", "tvfx"}
    /\ socket \in fxSockets /\ socket.state = "connected"
    /\ fxSockets' = (fxSockets \ {socket}) \cup {[socket EXCEPT !.state = "connecting"]}
    /\ UNCHANGED fxRuns
    /\ UNCHANGED <<vcVars, pageVars, tvVars, mpVars, lsUuid, beDevices, beTokens, beRes,
                   ioVars, bfVars, regCalls>>

\* The sockets there can be.
FxSockets ==
    [run : 1 .. MaxEffectRuns, index : 0 .. FxItems - 1, online : BOOLEAN,
     state : {"connecting", "connected"}]

FxInit ==
    /\ page \in {"mpfx", "tvfx"}
    /\ lsFull = FALSE
    /\ VcFresh
    /\ currentIndex = 0
    /\ isOnline \in BOOLEAN
    /\ TVIdle
    /\ MPIdle
    /\ BeIdle

FxNext ==
    \/ FxMount
    \/ \E index \in 0 .. FxItems - 1 : FxIndexChanged(index)
    \/ FxOnlineChanged
    \/ \E socket \in FxSockets : FxConnect(socket)
    \/ \E socket \in FxSockets : FxDisconnect(socket)

SpecEffect == FxInit /\ [][FxNext]_vars

\* --------------------------------------------- overlapping registrations
\* POST /devices/register called by several clients at once, with bodies
\* that pass validate: each registerDevice awaits its SELECT and then its
\* UPDATE or INSERT, and the statements of the calls interleave.

\* The bodies the callers send.
RegUuids == {UuidA, UuidB}
RegNames == {<<"T", "V">>, <<"L", "o", "b", "b", "y", " ", "T", "V">>}

\* The route is called.
RegRequest(caller, uuid, name) ==
    /\ page = "register"
    /\ regCalls[caller].phase \in {"idle", "done"}
    /\ regCalls' = [regCalls EXCEPT ![caller] =
                       [NoCall EXCEPT !.phase = "select", !.device_uuid = uuid,
                                      !.tenant_id = 1, !.name = name]]
    /\ UNCHANGED <<vcVars, pageVars, tvVars, mpVars, lsUuid, beDevices, beTokens, beRes,
                   ioVars, bfVars, fxVars>>

\* The SELECT of the call is answered.
RegSelected(caller) ==
    /\ page = "register"
    /\ regCalls[caller].phase = "select"
    /\ \E existing \in {SelectDevices(beDevices, regCalls[caller].device_uuid,
                                      regCalls[caller].tenant_id)} :
          regCalls' = [regCalls EXCEPT
                          ![caller].phase = "write",
                          ![caller].existing = IF Len(existing) > 0 THEN existing[1].id
                                               ELSE 0]
    /\ UNCHANGED <<vcVars, pageVars, tvVars, mpVars, lsUuid, beDevices, beTokens, beRes,
                   ioVars, bfVars, fxVars>>

\* The UPDATE or the INSERT of the call is executed, the token is signed
\* and the route answers; an INSERT that the unique key refuses throws, and
\* the route answers 500.
RegAnswered(caller) ==
    /\ page = "register"
    /\ regCalls[caller].phase = "write"
    /\ \E call \in {regCalls[caller]} :
         IF call.existing # 0
         THEN /\ beDevices' = DeviceUpdated(beDevices, call.existing, call.name)
              /\ beTokens' = beTokens \cup {DeviceToken(call.existing, call.tenant_id)}
              /\ regCalls' = [regCalls EXCEPT ![caller].phase = "done",
                                              ![caller].status = 200,
                                              ![caller].device = call.existing]
         ELSE IF DuplicateKey(beDevices, SqlNull, call.tenant_id)
         THEN /\ regCalls' = [regCalls EXCEPT ![caller].phase = "done",
                                              ![caller].status = 500]
              /\ UNCHANGED <<beDevices, beTokens>>
         ELSE /\ Len(beDevices) < MaxDevices
              /\ beDevices' = DeviceInserted(beDevices, call.device_uuid, call.name,
                                             call.tenant_id)
              /\ beTokens' = beTokens \cup {DeviceToken(Len(beDevices'), call.tenant_id)}
              /\ regCalls' = [regCalls EXCEPT ![caller].phase = "done",
                                              ![caller].status = 201,
                                              ![caller].device = Len(beDevices')]
    /\ UNCHANGED beRes
    /\ UNCHANGED <<vcVars, pageVars, tvVars, mpVars, lsUuid, ioVars, bfVars, fxVars>>

RegInit ==
    /\ page = "register"
    /\ lsFull = FALSE
    /\ VcFresh
    /\ currentIndex = 0
    /\ isOnline = TRUE
    /\ TVIdle
    /\ MPIdle
    /\ BeIdle

RegNext ==
    \/ \E caller \in Callers, uuid \in RegUuids, name \in RegNames :
          RegRequest(caller, uuid, name)
    \/ \E caller \in Callers : RegSelected(caller)
    \/ \E caller \in Callers : RegAnswered(caller)

SpecRegister == RegInit /\ [][RegNext]_vars

\* ------------------------------------------------ brute force protection
\* POST /auth/login for one e-mail: protectLogin, recordFailedLogin and the
\* route's handler.  The clock counts units of 15 minutes.  The rows and
\* blocks by IP address (20 attempts in an hour) are left out: the requests
\* come from addresses that stay below that.

\* MAX_ATTEMPTS of the source is 5; the model keeps the comparison and
\* scales the number.
MAX_ATTEMPTS == 3
\* 15 minutes
WINDOW_MS == 1
\* 30 minutes
BLOCK_DURATION_MS == 2

\* At most MaxLoginRequests login requests are answered, and at most
\* MaxRecording calls of recordAttempt or clearAttempts are unfinished.
MaxLoginRequests == 5
MaxRecording == 2

\* isBlocked: SELECT ... WHERE blocked_until > now has a row.
IsBlocked(rows, t) == \E row \in rows : row.blocked_until # SqlNull /\ row.blocked_until > t

\* The rows recordAttempt's SELECT returns: last_attempt > windowStart.
InWindow(rows, t) == {row \in rows : row.last_attempt > t - WINDOW_MS}

\* The row after recordAttempt's UPDATE, attempts being the number the
\* SELECT read.
AttemptUpdated(row, attempts, t) ==
    [row EXCEPT !.attempts = attempts + 1,
                !.last_attempt = t,
                !.blocked_until = IF attempts + 1 >= MAX_ATTEMPTS
                                  THEN t + BLOCK_DURATION_MS ELSE SqlNull]

\* A call in flight: recordAttempt (op "record") about to SELECT or to
\* write what it decided on the row it read, or clearAttempts (op "clear").
BfCall(req, op, phase, row, attempts) ==
    [req |-> req, op |-> op, at |-> now, phase |-> phase, row |-> row,
     attempts |-> attempts]

\* A login request from protectLogin to its response.  A blocked e-mail is
\* answered 429 before recordFailedLogin runs; wrong credentials are
\* answered 401 and right ones 200, and the wrapped res.json starts
\* recordAttempt or clearAttempts without waiting for it.
BfLogin(valid) ==
    /\ page = "login"
    /\ bfLogins < MaxLoginRequests
    /\ Cardinality(bfCalls) < MaxRecording
    /\ bfLogins' = bfLogins + 1
    /\ IF IsBlocked(bfRows, now)
       THEN /\ bfRes' = 429
            /\ UNCHANGED bfCalls
       ELSE /\ bfRes' = IF valid THEN 200 ELSE 401
            /\ bfCalls' = bfCalls \cup
                 {BfCall(bfLogins', IF valid THEN "clear" ELSE "record", "select", 0, 0)}
    /\ UNCHANGED <<bfRows, bfSeen>>
    /\ UNCHANGED <<vcVars, pageVars, tvVars, mpVars, lsUuid, beDevices, beTokens, beRes, ioVars, regCalls, fxVars>>

\* recordAttempt's SELECT is answered.  Without ORDER BY any of the rows in
\* the window may be existing[0].
BfSelect(call) ==
    /\ page = "login"
    /\ call \in bfCalls /\ call.op = "record" /\ call.phase = "select"
    /\ \/ /\ InWindow(bfRows, call.at) = {}
          /\ bfCalls' = (bfCalls \ {call}) \cup {[call EXCEPT !.phase = "write"]}
       \/ \E row \in InWindow(bfRows, call.at) :
             bfCalls' = (bfCalls \ {call}) \cup
                 {[call EXCEPT !.phase = "write", !.row = row.id,
                               !.attempts = row.attempts]}
    /\ UNCHANGED <<bfRows, bfRes, bfLogins, bfSeen>>
    /\ UNCHANGED <<vcVars, pageVars, tvVars, mpVars, lsUuid, beDevices, beTokens, beRes, ioVars, regCalls, fxVars>>

\* recordAttempt's UPDATE ... WHERE id = ? or INSERT is executed: the
\* attempt is recorded.  (A row's id stands for its AUTO_INCREMENT value:
\* the number of the request that inserted it.)
BfWrite(call) ==
    /\ page = "login"
    /\ call \in bfCalls /\ call.op = "record" /\ call.phase = "write"
    /\ bfCalls' = bfCalls \ {call}
    /\ bfRows' =
         IF call.row = 0
         THEN bfRows \cup {[id |-> call.req, attempts |-> 1, last_attempt |-> call.at,
                            blocked_until |-> SqlNull]}
         ELSE {IF row.id = call.row THEN AttemptUpdated(row, call.attempts, call.at)
               ELSE row : row \in bfRows}
    /\ bfSeen' = [fails |-> bfSeen.fails + 1,
                  due |-> IF bfSeen.fails + 1 = MAX_ATTEMPTS THEN now ELSE bfSeen.due]
    /\ UNCHANGED <<bfRes, bfLogins>>
    /\ UNCHANGED <<vcVars, pageVars, tvVars, mpVars, lsUuid, beDevices, beTokens, beRes, ioVars, regCalls, fxVars>>

\* clearAttempts' DELETE is executed.
BfClear(call) ==
    /\ page = "login"
    /\ call \in bfCalls /\ call.op = "clear"
    /\ bfCalls' = bfCalls \ {call}
    /\ bfRows' = {}
    /\ bfSeen' = [bfSeen EXCEPT !.fails = 0]
    /\ UNCHANGED <<bfRes, bfLogins>>
    /\ UNCHANGED <<vcVars, pageVars, tvVars, mpVars, lsUuid, beDevices, beTokens, beRes, ioVars, regCalls, fxVars>>

\* 15 minutes pass: the failed logins seen so far leave the window.
BfTick ==
    /\ page = "login"
    /\ now < MaxTime
    /\ now' = now + 1
    /\ bfSeen' = [fails |-> 0,
                  due |-> IF bfSeen.due # SqlNull /\ now' >= bfSeen.due + BLOCK_DURATION_MS
                          THEN SqlNull ELSE bfSeen.due]
    /\ UNCHANGED <<bfRows, bfCalls, bfRes, bfLogins>>
    /\ UNCHANGED <<vcCache, vcStorage, vcLast, lsFull, pageVars, tvVars, mpVars, lsUuid,
                   beDevices, beTokens, beRes, ioVars, regCalls, fxVars>>

\* The unfinished call that request req started, if there is one.
CallsOf(req) == {call \in bfCalls : call.req = req}

BfSelectOf(req) == \E call \in CallsOf(req) : BfSelect(call)

BfWriteOf(req) == \E call \in CallsOf(req) : BfWrite(call)

BfClearOf(req) == \E call \in CallsOf(req) : BfClear(call)

BfInit ==
    /\ page = "login"
    /\ lsFull = FALSE
    /\ VcFresh
    /\ currentIndex = 0
    /\ isOnline = TRUE
    /\ TVIdle
    /\ MPIdle
    /\ BeIdle

BfNext ==
    \/ \E valid \in BOOLEAN : BfLogin(valid)
    \/ \E req \in 1 .. MaxLoginRequests : BfSelectOf(req)
    \/ \E req \in 1 .. MaxLoginRequests : BfWriteOf(req)
    \/ \E req \in 1 .. MaxLoginRequests : BfClearOf(req)
    \/ BfTick

SpecLogin == BfInit /\ [][BfNext]_vars

\* ---------------------------------------------------------------- claims
\* C1: with no remote command and no error (no failed manifest request, no
\* failed media fetch), every end-of-item event of MediaPlayer (the image
\* timer's expiry, the video's 'ended') moves currentIndex by exactly one,
\* to (currentIndex + 1) mod itemCount.
C1_EndAdvancesByOne ==
    [][((MPVideoEnded \/ MPImageTimer)
          /\ mpDisturbance = "none"
          /\ HasCurrent(playlist, currentIndex))
       => currentIndex' = (currentIndex + 1) % Len(playlist)]_vars

\* C2: while the <video> of TVBoxDisplay is playing, currentIndex changes
\* only by that video's 'ended', by the timeout of a video error, or by a
\* remote command; no timer moves it.
C2_NoTimerPastVideo ==
    [][(page = "tv" /\ tvVideo.state = "playing" /\ currentIndex' # currentIndex)
       => \/ TVEnded
          \/ TVErrorTimeout
          \/ TVReload
          \/ \E type \in TvCommands : TVCommand(type)]_vars

\* C3: a loadPlaylist call whose request fails leaves the playlist in
\* deviceStorage as it was, and does not replace a non-empty playlist, or
\* the playlist of a device with a non-empty stored one, by an empty list.
C3_FailedLoadKeepsManifest ==
    [][(\E manifest \in Manifests : MPManifestResponse(FALSE, manifest))
       => /\ persisted' = persisted
          /\ (persisted # <<>> \/ playlist # <<>>) => playlist' # <<>>]_vars

\* A failed call has left the player on its non-empty stored playlist.
C3_Witness ==
    /\ mpError = "cache"
    /\ persisted # <<>>
    /\ playlist = persisted
    /\ mpCalls = 0

\* C4: a device that starts with a stored token and device id and a
\* non-empty stored playlist, and without network, does not go to
\* onboarding.
C4_OfflineStartKeepsDevice ==
    [][(page = "mp" /\ app.phase = "init" /\ lsDevice /\ ~isOnline /\ persisted # <<>>)
       => (app'.phase # "onboarding" /\ lsDevice')]_vars

\* C5: while the device is blocked no manifest request and no media load is
\* under way, no media element is on the page and no timer is pending.
C5_BlockedIsQuiet ==
    app.isBlocked => /\ mpCalls = 0
                     /\ mpLoads = <<>>
                     /\ mpElement = NoElement
                     /\ ~mpTimer

\* C6: a restart command delivered while an item is playing leaves
\* currentIndex = 0 and the item at index 0 loading, whatever the index was.
C6_RestartLoadsFirst ==
    [][/\ (MPCommand("restart") /\ mpElement.state \in {"playing", "shown"})
            => /\ currentIndex' = 0
               /\ Len(mpLoads') = Len(mpLoads) + 1
               /\ mpLoads'[Len(mpLoads')].item = playlist[1]
       /\ (TVCommand("restart") /\ tvVideo.state = "playing")
            => /\ currentIndex' = 0
               /\ tvVideo'.state = "loading" \/ ImageTimerArmed(content', 0)]_vars

\* C7: an image whose duration_seconds is missing, 0 or negative is on for
\* the fallback of 10 seconds: MediaPlayer has a timeout of 10 seconds
\* pending for it until it advances.
C7_ImageFallbackSeconds ==
    (/\ page = "mp"
     /\ HasCurrent(playlist, currentIndex)
     /\ CurrentItem(playlist, currentIndex).type = "image"
     /\ CurrentItem(playlist, currentIndex).duration_seconds <= 0)
    => /\ mpTimer
       /\ TimeoutSeconds(CurrentItem(playlist, currentIndex)) = 10

\* C8: the element on the page never shows, for an item with a checksum, a
\* blob of the item's url whose digest is not that checksum.
C8_NoStaleBlob ==
    (/\ mpElement.kind # "none"
     /\ HasCurrent(playlist, currentIndex)
     /\ CurrentItem(playlist, currentIndex).checksum # Null
     /\ mpElement.src.url = CurrentItem(playlist, currentIndex).url
     /\ mpElement.src.from # "direct")
    => mpElement.src.digest = CurrentItem(playlist, currentIndex).checksum

\* C11: while the device stays offline, MediaPlayer with a non-empty
\* playlist and a current item (an image only with a duration, a <video>
\* with room for the listeners of one more load) eventually leaves the index
\* it is at.
C11_OfflineStillAdvances ==
    \A i \in 0..2 :
        (/\ page = "mp" /\ app.phase = "player" /\ ~app.isBlocked
         /\ ~isOnline
         /\ currentIndex = i
         /\ HasCurrent(playlist, i)
         /\ (playlist[i + 1].type = "image" => ImageTimerSet(playlist, i))
         /\ Len(mpElement.listeners) < MaxListeners)
        ~> (isOnline \/ currentIndex # i)

\* C12: currentIndex of MediaPlayer is always an index value, a natural
\* number, never NaN, the result of a modulo by the length of an empty
\* playlist.
C12_CursorStaysValid ==
    page = "mp" => currentIndex \in Nat

\* The ids of the items of a list, in its order.
IdsOf(items) == [i \in DOMAIN items |-> items[i].id]

\* item has an id and a url
Carries(item) == item.id # Undefined /\ item.url # NullUrl

\* C13: after a manifest response the playlist holds exactly the items of
\* the response that carry an id and a url, in the order of the response.
C13_KeepsItemsWithIdAndUrl ==
    [][\A manifest \in Manifests :
          MPManifestResponse(TRUE, manifest)
             => IdsOf(playlist') = IdsOf(SelectSeq(manifest, Carries))]_vars

\* The ids of the rows of a device_uuid and tenant.
IdsOfPair(rows, uuid, tenant) ==
    {rows[i].id : i \in {j \in DOMAIN rows : /\ rows[j].device_id = uuid
                                              /\ rows[j].tenant_id = tenant}}

\* What a register call leaves for the pair (uuid, tenant): one row, whose id
\* the response carries, with 201 when the call made the row and 200 when the
\* row was there, and then no row more than before.
Idempotent(uuid, tenant) ==
    LET before == IdsOfPair(beDevices, uuid, tenant)
        after == IdsOfPair(beDevices', uuid, tenant)
    IN /\ after = {beRes'.device}
       /\ beRes'.success
       /\ beRes'.status = IF before = {} THEN 201 ELSE 200
       /\ before # {} => /\ after = before
                         /\ Len(beDevices') = Len(beDevices)

\* The bodies that pass schemas.deviceRegister and carry a device_uuid.
Registrable == {body \in Bodies : Validate(body).ok /\ body.device_uuid # Absent}

C15_MissingFieldsRejected ==
    [][\A body \in Bodies :
          (/\ body.device_uuid = Absent \/ body.tenant_id = Undefined
           /\ Validate(body).ok
           /\ Register(body))
          => /\ beRes'.status = 400
             /\ ~beRes'.success
             /\ beRes'.error = "device_uuid and tenant_id are required"
             /\ beRes'.token = NoToken
             /\ beDevices' = beDevices
             /\ beTokens' = beTokens]_vars

C17_UuidIsStable ==
    [][(page = "mp" /\ lsUuid # Null) => lsUuid' = lsUuid]_vars

\* C18: when a load of loadCurrentMedia completes, the media it hands to
\* the render is that of the item at currentIndex.
C18_LoadedMediaIsCurrent ==
    [][\A i \in 1..MaxLoads, ok \in BOOLEAN :
          (MPMediaLoaded(i, ok) /\ HasCurrent(playlist', currentIndex'))
          => currentMediaUrl'.url = playlist'[currentIndex' + 1].url]_vars

\* C19: when a <video> fires 'ended', one listener is on it (those of the
\* items before were removed), so that handleMediaEnd runs once: one 'ended'
\* playback event, and currentIndex moves by exactly one.
C19_OneListenerOnEnded ==
    [][MPVideoEnded
       => /\ Len(mpElement.listeners) = 1
          /\ currentIndex' = Advance(currentIndex, Len(playlist))]_vars

\* C20: the error event of an item that cannot be loaded does not itself
\* move currentIndex; the skip to the next item comes later, with the expiry
\* of the retry delay.
C20_SkipWaitsForDelay ==
    [][(MPImageError \/ MPVideoError) => currentIndex' = currentIndex]_vars

\* C21: with a playlist that has items, currentIndex is the index of one of
\* them: 0 <= currentIndex < itemCount, whatever manifests replaced the
\* playlist before.
C21_IndexInRange ==
    (page = "mp" /\ Len(playlist) > 0) => currentIndex \in 0..(Len(playlist) - 1)

\* C22: with a current item at index i of n items, a remote next command
\* sets currentIndex to (i + 1) mod n and a remote previous command sets it
\* to (i - 1 + n) mod n, on the device route and on the display route.
C22_NextAndPrevious ==
    [][/\ (page = "mp" /\ HasCurrent(playlist, currentIndex))
            => /\ MPCommand("next")
                     => currentIndex' = (currentIndex + 1) % Len(playlist)
               /\ MPCommand("previous")
                     => currentIndex' = (currentIndex - 1 + Len(playlist)) % Len(playlist)
       /\ (page = "tv" /\ HasCurrent(content, currentIndex))
            => /\ TVCommand("next")
                     => currentIndex' = (currentIndex + 1) % Len(content)
               /\ TVCommand("previous")
                     => currentIndex' = (currentIndex - 1 + Len(content)) % Len(content)]_vars

\* C23: a remote play or pause command changes neither currentIndex nor the
\* playlist nor what is buffered for the next item (pending loads, stored and
\* preloaded media); of a video it changes the playing / paused state and
\* nothing else, and with an image on screen it changes nothing.
C23_PlayPauseOnlyToggles ==
    [][\A type \in {"play", "pause"} :
          (MPCommand(type) \/ TVCommand(type))
          => /\ currentIndex' = currentIndex
             /\ playlist' = playlist /\ content' = content
             /\ mpLoads' = mpLoads /\ mediaStore' = mediaStore
             /\ currentMediaUrl' = currentMediaUrl /\ mpTimer' = mpTimer
             /\ preloadedVideos' = preloadedVideos /\ tvPreloading' = tvPreloading
             /\ vcCache' = vcCache /\ tvTimeouts' = tvTimeouts
             /\ mpElement' = [mpElement EXCEPT !.state = mpElement'.state]
             /\ tvVideo' = [tvVideo EXCEPT !.state = tvVideo'.state]
             /\ {mpElement.state, mpElement'.state, tvVideo.state, tvVideo'.state}
                   \subseteq {"none", "playing", "paused"}
                \/ (type = "play" /\ "ended" \in {mpElement.state, tvVideo.state})
             /\ mpElement.kind # "video" => mpElement' = mpElement
             /\ (page = "tv" /\ ~(HasCurrent(content, currentIndex)
                                  /\ IsVideoItem(CurrentItem(content, currentIndex))))
                   => tvVideo' = tvVideo]_vars

\* A remote pause has paused the playing video of the device route.
C23_Witness ==
    /\ page = "mp"
    /\ mpElement.kind = "video"
    /\ mpElement.state = "paused"
    /\ HasCurrent(playlist, currentIndex)

\* C24: a video error emits an error report and then advances currentIndex
\* to the next item.
C24_VideoErrorReportedThenAdvance ==
    [][MPVideoError
         => /\ ErrorReports(mpElement) > 0
            /\ currentIndex' = Advance(currentIndex, Len(playlist))]_vars

\* C25: when handleMediaEnd emits the 'ended' event of the item at
\* currentIndex (the image timer, the image's error, a 'next' command), the
\* 'started' event of that item has been emitted before.
C25_EndedOnlyAfterStarted ==
    [][((MPImageTimer \/ MPImageError \/ MPCommand("next"))
          /\ HasCurrent(playlist, currentIndex))
       => mpStarted]_vars

\* C26: every heartbeat a connected device socket emits carries the id of
\* the item at currentIndex and the item count of the playlist as they are
\* when it is emitted.
C26_HeartbeatsCarryCurrentValues ==
    \A beat \in Heartbeats :
        /\ beat.currentItem = Beat(playlist, currentIndex, isOnline).currentItem
        /\ beat.playlistVersion = Len(playlist)

\* C27: every 'playlist:update' for this device's id that reaches the
\* device socket, and every change from offline to online, starts a fetch of
\* the manifest (MediaPlayer) or of the device's files (TVBoxDisplay).
C27_PushAndOnlineStartFetch ==
    [][/\ MPPlaylistUpdate => mpCalls' = mpCalls + 1
       /\ (MPConnectivity /\ app.phase = "player" /\ ~isOnline) => mpCalls' = mpCalls + 1
       /\ \A data \in PlaylistUpdates :
            (TVPlaylistUpdate(data) /\ data.device_id.value = TvDeviceId.value)
               => tvQuery'.fetching]_vars

\* A loadPlaylist that 'playlist:update' started has asked for the manifest
\* and not set its playlist yet (isLoading is set by that call only while
\* the socket is there).
C28_UpdatePending == mpCalls > 0 /\ mpLoading /\ mpSocket = "connected"

\* C28: a next, previous or restart command that arrives after a
\* 'playlist:update' is not handled before the playlist of that update is
\* set, so that it computes its index with the new playlist.
C28_CommandAfterUpdateSeesNewManifest ==
    [][\A type \in {"next", "previous", "restart"} :
          (MPCommand(type) /\ HasCurrent(playlist, currentIndex))
             => ~C28_UpdatePending]_vars

\* C29: a manifest the server answered is saved and then set, so that the
\* player's playlist is the stored one: after a successful fetch both are
\* the transformed manifest, after a failed fetch or a failed save the
\* stored playlist is as before and the player is on it, and a non-empty
\* playlist of the player is always the stored one.
C29_PersistedBeforeAdopted ==
    [][/\ \A m \in Manifests :
            /\ MPManifestResponse(TRUE, m)
                 => (persisted' = Transform(m) /\ playlist' = persisted')
            /\ MPManifestResponse(FALSE, m)
                 => (persisted' = persisted /\ playlist' = persisted)
       /\ (page' = "mp" /\ app'.phase = "player" /\ playlist' # <<>>)
            => playlist' = persisted']_vars

\* The player is on a manifest it fetched and saved, one that no prior run
\* had stored.
C29_Witness ==
    /\ page = "mp"
    /\ mpError = Null
    /\ playlist = Transform(<<Video1Changed, Image3Negative, Image3Unset>>)
    /\ persisted = playlist

\* C30: a manifest request during which the database fails is not answered
\* with success.
C30_DbFailureIsAnError ==
    [][\A text \in DeviceIdParams, token \in RequestTokens :
          GetManifest(text, token, FALSE) => ~beRes'.success]_vars

\* C31: a 403 answer to the manifest request, at startup or on a later
\* loadPlaylist, leaves the device blocked.
C31_BlockedReportBlocks ==
    [][/\ (AppInitialized("403") /\ lsDevice) => app'.isBlocked
       /\ \A m \in Manifests : MPManifestAnswered("403", m) => app'.isBlocked]_vars

\* C32: a startup whose stored token the server refuses as invalid or
\* expired removes the token and goes to onboarding, and does not block the
\* device.
C32_InvalidTokenReRegisters ==
    [][(lsDevice /\ isOnline
          /\ AppInitialized(DeviceSees(AuthenticateDevice(GarbageToken).status)))
       => (~lsDevice' /\ app'.phase = "onboarding" /\ ~app'.isBlocked)]_vars

\* The entries of m that a step to m2 removed.
Removed(m, m2) == {i \in DOMAIN m : ~MapHas(m2, m[i].id)}

\* C33: the entry a cacheVideo evicts to make room has the oldest cachedAt
\* of the entries in the cache, rewritten entries counted with their new
\* cachedAt.
C33_EvictsOldestCachedAt ==
    [][\A id \in VcIds, url \in VcUrls :
          cacheVideo(id, url)
            => \A i \in Removed(vcCache, vcCache'), j \in DOMAIN vcCache :
                   vcCache[i].cachedAt <= vcCache[j].cachedAt]_vars

\* C34: the cache never holds more than MAX_CACHE_SIZE entries.
C34_AtMostMaxEntries == Len(vcCache) <= MAX_CACHE_SIZE

\* C40: a cacheVideo of an id that is in the cache removes no entry.
C40_RewriteEvictsNothing ==
    [][\A id \in VcIds, url \in VcUrls :
          (MapHas(vcCache, id) /\ cacheVideo(id, url))
            => Removed(vcCache, vcCache') = {}]_vars

\* The place of the entry of id in m.
PlaceOf(m, id) == CHOOSE i \in DOMAIN m : m[i].id = id

\* m2 is m without exactly the entries that are older than CACHE_DURATION at
\* time t: the others are all there, unchanged and in their order.
SweptExactly(m, m2, t) ==
    /\ \A i \in DOMAIN m :
          (t - m[i].cachedAt > CACHE_DURATION) <=> ~(\E k \in DOMAIN m2 : m2[k] = m[i])
    /\ \A k \in DOMAIN m2 : \E i \in DOMAIN m : m[i] = m2[k]
    /\ \A k, l \in DOMAIN m2 : k < l => PlaceOf(m, m2[k].id) < PlaceOf(m, m2[l].id)

\* C35: clearExpiredCache removes exactly the entries older than
\* CACHE_DURATION and leaves the others as they are; a getCachedVideo that
\* loads the cache from storage leaves exactly the stored entries that are
\* not older; and the entry a getCachedVideo returns is not older.
\* (The test of vcLast' is implied by the action it stands before; it is
\* there to be evaluated first.)
C35_ExpiredExactlyRemoved ==
    [][/\ (vcLast'.op = "clearExpiredCache" /\ clearExpiredCache)
          => SweptExactly(vcCache, vcCache', now)
       /\ \A id \in VcIds :
             (vcLast'.op = "getCachedVideo" /\ vcLast'.id = id /\ getCachedVideo(id))
               => /\ (vcCache = <<>> /\ vcStorage.has)
                       => SweptExactly(FromEntries(vcStorage.pairs), vcCache', now)
                  /\ vcLast'.res # Null
                       => /\ MapHas(vcCache', id)
                          /\ MapGet(vcCache', id).url = vcLast'.res
                          /\ now - MapGet(vcCache', id).cachedAt <= CACHE_DURATION]_vars

\* C35's case: a clearExpiredCache removed an entry and kept one that is
\* exactly CACHE_DURATION old.
C35_Witness ==
    /\ vcLast.op = "clearExpiredCache" /\ vcLast.evicted /\ vcLast.at = now
    /\ \E i \in DOMAIN vcCache : now - vcCache[i].cachedAt = CACHE_DURATION

\* The sockets of deviceId that are connected.
LiveSockets(deviceId) == {socket \in nsSockets : socket.deviceId = deviceId}

\* C36: the registry maps a device id to a socket exactly while the device
\* has a connected socket, and the socket it maps to is one of them; so a
\* device whose new socket connected before the old one's disconnect was
\* handled stays mapped to the new socket.
C36_RegistryTracksLiveSocket ==
    \A deviceId \in SocketDevices :
        /\ GetDeviceSocket(deviceSockets, deviceId) = NoSocket
              <=> LiveSockets(deviceId) = {}
        /\ GetDeviceSocket(deviceSockets, deviceId) # NoSocket
              => \E socket \in LiveSockets(deviceId) :
                     socket.id = GetDeviceSocket(deviceSockets, deviceId)

\* C37: once MAX_ATTEMPTS failed logins for the e-mail were recorded within
\* the window, every login request for it is answered 429 until
\* BLOCK_DURATION_MS has passed, whether the attempts were recorded one
\* after the other or at the same time.
C37_BlockedAfterMaxAttempts ==
    [][(bfSeen.due # SqlNull /\ \E valid \in BOOLEAN : BfLogin(valid))
       => bfRes' = 429]_vars

\* C38: registrations for the same (device_uuid, tenant_id) that overlap
\* never leave two device rows for the pair, and those that were answered
\* were answered with the same device id.
C38_OneDevicePerUuid ==
    /\ \A i, j \in DOMAIN beDevices :
          (beDevices[i].device_id = beDevices[j].device_id
             /\ beDevices[i].tenant_id = beDevices[j].tenant_id) => i = j
    /\ \A a, b \in Callers :
          (/\ regCalls[a].phase = "done" /\ regCalls[b].phase = "done"
           /\ regCalls[a].device_uuid = regCalls[b].device_uuid
           /\ regCalls[a].tenant_id = regCalls[b].tenant_id)
            => regCalls[a].device = regCalls[b].device

\* The heartbeat intervals that run: those of the connected sockets.
HeartbeatTimers == {socket \in fxSockets : socket.state = "connected"}

\* C39: a player has at most one device socket open and at most one
\* heartbeat interval running, however often its socket effect ran.
C39_OneSocketOneTimer ==
    /\ Cardinality(fxSockets) <= 1
    /\ Cardinality(HeartbeatTimers) <= 1

EntriesOf(m, id) == {i \in DOMAIN m : m[i].id = id}

\* C9: after any sequence of cache writes the cache holds at most one entry
\* per content id, and a cacheVideo(id, url) that repeats the call before it
\* leaves exactly one entry for id, holding url as after the first write.
C9_OneEntryPerId ==
    /\ \A id \in VcIds : Cardinality(EntriesOf(vcCache, id)) <= 1
    /\ (vcLast.op = "cacheVideo" /\ vcLast.again)
          => /\ Cardinality(EntriesOf(vcCache, vcLast.id)) = 1
             /\ MapGet(vcCache, vcLast.id).url = vcLast.url

\* C9's case: the same write made twice, the second into a full cache.
C9_Witness ==
    /\ vcLast.op = "cacheVideo" /\ vcLast.again /\ vcLast.evicted
    /\ MapHas(vcCache, vcLast.id)

\* C10: getCachedVideo(id) called right after cacheVideo(id, url), before
\* the entry is older than CACHE_DURATION, returns url.
C10_ReadAfterWrite ==
    (vcLast.op = "getCachedVideo" /\ vcLast.wrote # Null)
      => vcLast.res = vcLast.wrote

\* C10's case: the write went into a full cache and evicted its first key,
\* time passed, and the read that followed returned what was written.
C10_Witness ==
    /\ vcLast.op = "getCachedVideo" /\ vcLast.wrote # Null
    /\ vcLast.res = vcLast.wrote
    /\ vcLast.evicted
    /\ MapGet(vcCache, vcLast.id).cachedAt < now

====
